---- MODULE Spec2Model ----
\* Activity Tracker: the activity lifecycle (create / edit / inline status /
\* bulk priority / append update / delete) over the relational store, as
\* implemented by src/app/routes/activities.py and src/app/models.py.
\*
\* Texts are sequences of one-character strings so that str.strip() and string
\* concatenation are computed, not assumed.  Dates are day numbers; a form
\* carries dates as 'YYYY-MM-DD' strings that strptime parses.  A nullable
\* column holds None (the empty tuple) or Some(v) (the one-element tuple).
EXTENDS Integers, Sequences, FiniteSets, TLC

\* ---------------------------------------------------------------- bounds
MaxActivities == 1
MaxUpdates == 2
MaxGoals == 1
MaxDay == 1
ManyActivities == 2
MaxThreads == 2
MaxRowId == 3
MaxInstances == 3
MaxMinute == 6
MaxStreakDay == 4
MaxListed == 6
MaxSorted == 4
ManyGoals == 2
MaxGoalDay == 8

\* the analytics cache lives for timedelta(minutes=5)
CacheMinutes == 5

\* ---------------------------------------------------------------- values
None == << >>
Some(v) == <<v>>

Days == 0..MaxDay

AllowedStatus == {"Ongoing", "Closed", "NA"}
AllowedPriority == {"High", "Medium", "Low"}

ClosedPrefix == <<"[", "C", "L", "O", "S", "E", "D", "]", " ">>

\* str.strip(): drop leading and trailing whitespace
RECURSIVE LStrip(_)
LStrip(s) == IF s # << >> /\ Head(s) = " " THEN LStrip(Tail(s)) ELSE s

RECURSIVE RStrip(_)
RStrip(s) ==
    IF s # << >> /\ s[Len(s)] = " " THEN RStrip(SubSeq(s, 1, Len(s) - 1)) ELSE s

Strip(s) == RStrip(LStrip(s))

\* str.strip() of a status or priority word, which the model keeps as one
\* string: the padded spellings a request can carry and the word each gives
Padded == [w \in {" NA ", " High "} |-> IF w = " NA " THEN "NA" ELSE "High"]

strip(w) == IF w \in DOMAIN Padded THEN Padded[w] ELSE w

\* datetime.strptime(value, '%Y-%m-%d').date(): the strings it accepts and the
\* day each denotes; any other string raises ValueError
DateStr == [d \in Days |-> IF d = 0 THEN "2024-01-01"
                           ELSE IF d = 1 THEN "2024-01-02"
                           ELSE IF d = 2 THEN "2024-01-03"
                           ELSE "2024-01-04"]

ValidDate(s) == \E d \in Days : DateStr[d] = s

strptime(s) == CHOOSE d \in Days : DateStr[d] = s

\* SQLite INTEGER PRIMARY KEY without AUTOINCREMENT: one more than the largest
\* rowid in the table, 1 for an empty table
Max(S) == CHOOSE m \in S : \A x \in S : x <= m

NextId(table) == IF DOMAIN table = {} THEN 1 ELSE Max(DOMAIN table) + 1

\* the empty table (a function with the empty domain)
EmptyTable == [i \in {} |-> 0]

\* table with row `id` set to `row`, and with the rows in `ids` removed
Put(table, id, row) ==
    [i \in DOMAIN table \cup {id} |-> IF i = id THEN row ELSE table[i]]

Remove(table, ids) == [i \in DOMAIN table \ ids |-> table[i]]

\* ---------------------------------------------------------------- state
VARIABLES
    activities,   \* table activities: id -> row
    updates,      \* table updates: id -> row
    goals,        \* table goals: id -> row
    today,        \* date.today() as a day number
    last,         \* the request answered last and its response
    sessions,     \* per worker thread: the ORM session of the request in flight
    analytics_cache,  \* _analytics_cache: the cached context and its expiry
    clock,        \* datetime.now(timezone.utc), in minutes
    lockfile,     \* the desktop lock file: absent, or its creator and content
    instances,    \* the desktop instances: where each is in its start-up
    overlapped    \* history: two instances were acquiring the lock at once

store == <<activities, updates, goals>>

\* what lives outside the database: the server's analytics cache and its
\* wall clock, and the desktop launcher's lock file and instances
process == <<analytics_cache, clock, lockfile, instances, overlapped>>

vars == <<activities, updates, goals, today, last, sessions,
          analytics_cache, clock, lockfile, instances, overlapped>>

\* request.form.get(key, default) / data.get(key)
Get(form, key, default) == IF key \in DOMAIN form THEN form[key] ELSE default

\* Activity column validators (@validates): the value is stored only if allowed
validate_status(value) == value \in AllowedStatus

validate_priority_unchecked(value) == TRUE

validate_priority(value) == value \in AllowedPriority

\* Update(activity_id=..., text=..., created_at=now[, bp_snapshot=...])
Update(activity_id, text, now, bp_snapshot) ==
    [activity_id |-> activity_id, text |-> text, created_at |-> now,
     bp_snapshot |-> bp_snapshot]

\* ------------------------------------------------------- the ORM session
\* INSERT of the pending Update objects, in the order they were added
RECURSIVE InsertAll(_, _)
InsertAll(upds, pending) ==
    IF pending = << >> THEN upds
    ELSE InsertAll(Put(upds, NextId(upds), Head(pending)), Tail(pending))

\* flush of a modified Activity: an UPDATE of the columns whose value differs
\* from the loaded one, none when nothing differs; the UPDATE must match the
\* row (StaleDataError otherwise).  The pending Updates are INSERTed after it;
\* the updates table has no enforced foreign key.
ChangedColumns(loaded, dirty) == {f \in DOMAIN dirty : dirty[f] # loaded[f]}

\* (variant) the flush also rewrites the snapshots of the activity's Updates
FlushModify_resnapshots(acts, upds, id, loaded, dirty, pending) ==
    LET changed == ChangedColumns(loaded, dirty) IN
    IF changed # {} /\ id \notin DOMAIN acts
    THEN [ok |-> FALSE, activities |-> acts, updates |-> upds]
    ELSE [ok |-> TRUE,
          activities |->
              IF changed = {} THEN acts
              ELSE Put(acts, id, [f \in DOMAIN dirty |->
                       IF f \in changed THEN dirty[f] ELSE acts[id][f]]),
          updates |-> InsertAll(
              [u \in DOMAIN upds |->
                  IF upds[u].activity_id = id
                  THEN [upds[u] EXCEPT !.bp_snapshot = Some(dirty.blocking_points)]
                  ELSE upds[u]],
              pending)]

\* (variant) a versioned row: the flush fails when the row is no longer the
\* one that was loaded
FlushModify_versioned(acts, upds, id, loaded, dirty, pending) ==
    IF id \notin DOMAIN acts \/ acts[id] # loaded
    THEN [ok |-> FALSE, activities |-> acts, updates |-> upds]
    ELSE [ok |-> TRUE,
          activities |-> Put(acts, id, dirty),
          updates |-> InsertAll(upds, pending)]

FlushModify(acts, upds, id, loaded, dirty, pending) ==
    LET changed == ChangedColumns(loaded, dirty) IN
    IF changed # {} /\ id \notin DOMAIN acts
    THEN [ok |-> FALSE, activities |-> acts, updates |-> upds]
    ELSE [ok |-> TRUE,
          activities |->
              IF changed = {} THEN acts
              ELSE Put(acts, id, [f \in DOMAIN dirty |->
                       IF f \in changed THEN dirty[f] ELSE acts[id][f]]),
          updates |-> InsertAll(upds, pending)]

\* session.delete(activity): the delete cascades to the Update rows that were
\* loaded through activity.updates; flush DELETEs those rows and the activity
\* (variant) a relationship without the delete cascade
CascadeOf_nothing(upds, id) == {}

CascadeOf(upds, id) == {u \in DOMAIN upds : upds[u].activity_id = id}

FlushDelete(acts, upds, id, cascade) ==
    [ok |-> TRUE,
     activities |-> Remove(acts, {id}),
     updates |-> Remove(upds, cascade)]

\* no request in flight on a worker thread
Idle == [state |-> "idle"]

Threads == 1..MaxThreads

\* the response of a request, with the request it answers
Response(op, id, form, code, flash) ==
    [op |-> op, id |-> id, code |-> code, flash |-> flash]

\* ------------------------------------------------------------ add_activity
\* POST /add.  The handler commits the Activity, then the initial Update in a
\* second commit.  fault names the commit that raises ("none": neither).
initial_obs(form) ==
    IF Strip(Get(form, "observations", << >>)) # << >>
    THEN Strip(Get(form, "observations", << >>))
    ELSE Strip(Get(form, "initial_update", << >>))

NewActivity(form) ==
    [activity_desc |-> Strip(Get(form, "activity_desc", << >>)),
     source |-> Get(form, "source", << >>),
     start_date |-> strptime(form.start_date),
     end_date |-> IF Get(form, "end_date", "") # ""
                  THEN Some(strptime(form.end_date)) ELSE None,
     blocking_points |-> Get(form, "blocking_points", << >>),
     status |-> Get(form, "status", "Ongoing"),
     observations |-> initial_obs(form),
     priority |-> Get(form, "priority", "Medium"),
     tags |-> Get(form, "tags", << >>)]

\* (variant) an Activity without the column validators
AddRaises_unvalidated(form) ==
    \/ "start_date" \notin DOMAIN form
    \/ ~ValidDate(form.start_date)
    \/ Get(form, "end_date", "") # "" /\ ~ValidDate(form.end_date)

AddRaises(form) ==
    \/ "start_date" \notin DOMAIN form
    \/ ~ValidDate(form.start_date)
    \/ Get(form, "end_date", "") # "" /\ ~ValidDate(form.end_date)
    \/ ~validate_status(Get(form, "status", "Ongoing"))
    \/ ~validate_priority(Get(form, "priority", "Medium"))

add_activity(form, fault) ==
    LET desc == Strip(Get(form, "activity_desc", << >>))
        id == NextId(activities)
    IN
    /\ UNCHANGED <<goals, today, sessions, process>>
    /\ IF desc = << >> \/ Len(desc) < 3
       THEN /\ UNCHANGED <<activities, updates>>
            /\ last' = Response("add_activity", 0, form, 302, "description required")
       ELSE IF AddRaises(form) \/ fault = "commit1"
       THEN /\ UNCHANGED <<activities, updates>>
            /\ last' = Response("add_activity", 0, form, 302, "error")
       ELSE LET activity == NewActivity(form) IN
            /\ activities' = Put(activities, id, activity)
            /\ IF activity.observations = << >>
               THEN /\ UNCHANGED updates
                    /\ last' = Response("add_activity", id, form, 302, "success")
               ELSE IF fault = "commit2"
               THEN /\ UNCHANGED updates
                    /\ last' = Response("add_activity", id, form, 302, "error")
               ELSE /\ updates' = InsertAll(updates,
                           <<Update(id, activity.observations, today,
                                    Some(activity.blocking_points))>>)
                    /\ last' = Response("add_activity", id, form, 302, "success")

\* ----------------------------------------------------------- edit_activity
\* POST /edit/<id>: what the handler does to the loaded Activity object and
\* which Update objects it adds to the session, and how it leaves:
\* "commit" (db.session.commit()), "return" (the early return of the
\* closing-note check: no commit, the session is discarded with the request),
\* "raise" (an exception: db.session.rollback()).
EditRaises(form) ==
    \/ "activity_desc" \notin DOMAIN form
    \/ "start_date" \notin DOMAIN form
    \/ ~ValidDate(form.start_date)
    \/ Get(form, "end_date", "") # "" /\ ~ValidDate(form.end_date)
    \/ ~validate_status(Get(form, "status", "Ongoing"))
    \/ ~validate_priority(Get(form, "priority", "Medium"))

\* the closing-note branch: a note is appended as an Update; with neither a
\* note nor a new update the handler returns before the commit
closing_check_always_commits(closing_note, new_update) ==
    IF closing_note # << >> THEN "append" ELSE "pass"

closing_check(closing_note, new_update) ==
    IF closing_note # << >> THEN "append"
    ELSE IF new_update = << >> THEN "reject"
    ELSE "pass"

edit_activity(activity, id, form, now) ==
    IF EditRaises(form)
    THEN [exit |-> "raise", dirty |-> activity, pending |-> << >>]
    ELSE
    LET old_status == activity.status
        fields == [activity EXCEPT
            !.activity_desc = form.activity_desc,
            !.source = Get(form, "source", << >>),
            !.start_date = strptime(form.start_date),
            !.end_date = IF Get(form, "end_date", "") # ""
                         THEN Some(strptime(form.end_date)) ELSE None,
            !.blocking_points = Get(form, "blocking_points", << >>),
            !.status = Get(form, "status", "Ongoing"),
            !.priority = Get(form, "priority", "Medium"),
            !.tags = Get(form, "tags", << >>)]
        new_update == Strip(Get(form, "new_update", << >>))
        closing_note == Strip(Get(form, "closing_note", << >>))
        closing_update_text == ClosedPrefix \o closing_note
        withUpdate ==
            IF new_update # << >>
            THEN [dirty |-> [fields EXCEPT !.observations = new_update],
                  pending |-> <<Update(id, new_update, now, None)>>]
            ELSE [dirty |-> fields, pending |-> << >>]
    IN
    IF fields.status = "Closed" /\ old_status # "Closed"
    THEN IF closing_check(closing_note, new_update) = "append"
         THEN [exit |-> "commit",
               dirty |-> [withUpdate.dirty EXCEPT
                             !.observations = closing_update_text],
               pending |-> Append(withUpdate.pending,
                                  Update(id, closing_update_text, now, None))]
         ELSE IF closing_check(closing_note, new_update) = "reject"
         THEN [exit |-> "return", dirty |-> withUpdate.dirty,
               pending |-> withUpdate.pending]
         ELSE [exit |-> "commit", dirty |-> withUpdate.dirty,
               pending |-> withUpdate.pending]
    ELSE [exit |-> "commit", dirty |-> withUpdate.dirty,
          pending |-> withUpdate.pending]

\* -------------------------------------------------------------- add_update
\* POST /activity/<id>/update
\* (variant) observations is not refreshed
add_update_keeps_observations(activity, id, form, now) ==
    LET text == Strip(Get(form, "update_text", << >>))
        new_bp == Strip(Get(form, "blocking_points", << >>))
        dirty == [activity EXCEPT
            !.blocking_points = IF new_bp # << >> THEN new_bp ELSE @]
    IN
    IF text # << >>
    THEN [exit |-> "commit", dirty |-> dirty,
          pending |-> <<Update(id, text, now, Some(dirty.blocking_points))>>]
    ELSE [exit |-> "return", dirty |-> activity, pending |-> << >>]

\* (variant) the snapshot is taken before the new blocking points are applied
add_update_snapshot_before(activity, id, form, now) ==
    LET text == Strip(Get(form, "update_text", << >>))
        new_bp == Strip(Get(form, "blocking_points", << >>))
        dirty == [activity EXCEPT
            !.observations = text,
            !.blocking_points = IF new_bp # << >> THEN new_bp ELSE @]
    IN
    IF text # << >>
    THEN [exit |-> "commit", dirty |-> dirty,
          pending |-> <<Update(id, text, now, Some(activity.blocking_points))>>]
    ELSE [exit |-> "return", dirty |-> activity, pending |-> << >>]

\* (variant) the new blocking points are applied before the text is looked at
add_update_blocking_points_first(activity, id, form, now) ==
    LET text == Strip(Get(form, "update_text", << >>))
        new_bp == Strip(Get(form, "blocking_points", << >>))
        with_bp == [activity EXCEPT
            !.blocking_points = IF new_bp # << >> THEN new_bp ELSE @]
        dirty == [with_bp EXCEPT !.observations = text]
    IN
    IF text # << >>
    THEN [exit |-> "commit", dirty |-> dirty,
          pending |-> <<Update(id, text, now, Some(dirty.blocking_points))>>]
    ELSE [exit |-> "commit", dirty |-> with_bp, pending |-> << >>]

add_update(activity, id, form, now) ==
    LET text == Strip(Get(form, "update_text", << >>))
        new_bp == Strip(Get(form, "blocking_points", << >>))
        dirty == [activity EXCEPT
            !.observations = text,
            !.blocking_points = IF new_bp # << >> THEN new_bp ELSE @]
    IN
    IF text # << >>
    THEN [exit |-> "commit", dirty |-> dirty,
          pending |-> <<Update(id, text, now, Some(dirty.blocking_points))>>]
    ELSE [exit |-> "return", dirty |-> activity, pending |-> << >>]

\* ----------------------------------------------------------- update_status
\* POST /activity/<id>/status
\* (variant) the closing note is not required
update_status_note_optional(activity, id, form, now) ==
    LET new_status == strip(Get(form, "status", ""))
        closing_note == Strip(Get(form, "closing_note", << >>))
        closing_update_text == ClosedPrefix \o closing_note
        closed == [activity EXCEPT
            !.status = new_status,
            !.end_date = IF new_status = "Closed" /\ @ = None
                         THEN Some(now) ELSE @]
    IN
    IF new_status \notin AllowedStatus
    THEN [exit |-> "return", code |-> 400, dirty |-> activity, pending |-> << >>]
    ELSE IF closing_note # << >> /\ new_status = "Closed"
    THEN [exit |-> "commit", code |-> 200,
          dirty |-> [closed EXCEPT !.observations = closing_update_text],
          pending |-> <<Update(id, closing_update_text, now, None)>>]
    ELSE [exit |-> "commit", code |-> 200, dirty |-> closed, pending |-> << >>]

update_status(activity, id, form, now) ==
    LET old_status == activity.status
        new_status == strip(Get(form, "status", ""))
        closing_note == Strip(Get(form, "closing_note", << >>))
        closing_update_text == ClosedPrefix \o closing_note
        closed == [activity EXCEPT
            !.status = new_status,
            !.end_date = IF new_status = "Closed" /\ @ = None
                         THEN Some(now) ELSE @]
    IN
    IF new_status \notin AllowedStatus
    THEN [exit |-> "return", code |-> 400, dirty |-> activity, pending |-> << >>]
    ELSE IF new_status = "Closed" /\ old_status # "Closed" /\ closing_note = << >>
    THEN [exit |-> "return", code |-> 400, dirty |-> activity, pending |-> << >>]
    ELSE IF closing_note # << >> /\ new_status = "Closed"
    THEN [exit |-> "commit", code |-> 200,
          dirty |-> [closed EXCEPT !.observations = closing_update_text],
          pending |-> <<Update(id, closing_update_text, now, None)>>]
    ELSE [exit |-> "commit", code |-> 200, dirty |-> closed, pending |-> << >>]

\* --------------------------------------------------------------- requests
\* Each action is one HTTP request handled from its first line to the end of
\* the request, when Flask-SQLAlchemy removes the session (whatever was not
\* committed is discarded).  fault = "commit" makes db.session.commit() raise.
Rows(table) == Cardinality(DOMAIN table)

AddActivity(form, fault) ==
    /\ Rows(updates) + (IF initial_obs(form) # << >> THEN 1 ELSE 0) <= MaxUpdates
    /\ add_activity(form, fault)

\* the commit of a handler that modified one Activity
CommitModify(op, id, form, r, fault, okCode, errCode) ==
    LET f == FlushModify(activities, updates, id, activities[id],
                         r.dirty, r.pending) IN
    IF fault = "commit" \/ ~f.ok
    THEN /\ UNCHANGED <<activities, updates>>
         /\ last' = Response(op, id, form, errCode, "error")
    ELSE /\ activities' = f.activities
         /\ updates' = f.updates
         /\ last' = Response(op, id, form, okCode, "success")

EditActivity(id, form, fault) ==
    /\ UNCHANGED <<goals, today, sessions, process>>
    /\ IF id \notin DOMAIN activities
       THEN /\ UNCHANGED <<activities, updates>>
            /\ last' = Response("edit_activity", id, form, 404, "none")
       ELSE LET r == edit_activity(activities[id], id, form, today) IN
            /\ Rows(updates) + Len(r.pending) <= MaxUpdates
            /\ IF r.exit = "commit"
               THEN CommitModify("edit_activity", id, form, r, fault, 302, 302)
               ELSE /\ UNCHANGED <<activities, updates>>
                    /\ last' = Response("edit_activity", id, form, 302,
                           IF r.exit = "return" THEN "closing note required"
                           ELSE "error")

AddUpdate(id, form, fault) ==
    /\ UNCHANGED <<goals, today, sessions, process>>
    /\ IF id \notin DOMAIN activities
       THEN /\ UNCHANGED <<activities, updates>>
            /\ last' = Response("add_update", id, form, 302, "error")
       ELSE LET r == add_update(activities[id], id, form, today) IN
            /\ Rows(updates) + Len(r.pending) <= MaxUpdates
            /\ IF r.exit = "commit"
               THEN CommitModify("add_update", id, form, r, fault, 302, 302)
               ELSE /\ UNCHANGED <<activities, updates>>
                    /\ last' = Response("add_update", id, form, 302,
                                        "cannot be empty")

UpdateStatus(id, form, fault) ==
    /\ UNCHANGED <<goals, today, sessions, process>>
    /\ IF id \notin DOMAIN activities
       THEN /\ UNCHANGED <<activities, updates>>
            /\ last' = Response("update_status", id, form, 404, "none")
       ELSE LET r == update_status(activities[id], id, form, today) IN
            /\ Rows(updates) + Len(r.pending) <= MaxUpdates
            /\ IF r.exit = "commit"
               THEN CommitModify("update_status", id, form, r, fault, 200, 500)
               ELSE /\ UNCHANGED <<activities, updates>>
                    /\ last' = Response("update_status", id, form, r.code, "none")

\* GET /delete/<id>
DeleteActivity(id, fault) ==
    /\ UNCHANGED <<goals, today, sessions, process>>
    /\ IF id \notin DOMAIN activities
       THEN /\ UNCHANGED <<activities, updates>>
            /\ last' = Response("delete_activity", id, << >>, 404, "none")
       ELSE LET f == FlushDelete(activities, updates, id,
                                 CascadeOf(updates, id)) IN
            IF fault = "commit"
            THEN /\ UNCHANGED <<activities, updates>>
                 /\ last' = Response("delete_activity", id, << >>, 302, "error")
            ELSE /\ activities' = f.activities
                 /\ updates' = f.updates
                 /\ last' = Response("delete_activity", id, << >>, 302, "success")

\* POST /activities/bulk/priority: one UPDATE ... WHERE id IN (activity_ids)
Range(seq) == {seq[i] : i \in DOMAIN seq}

\* (variant) the UPDATE without its WHERE clause
BulkUpdatePriority_every_row(form, fault) ==
    LET activity_ids == Get(form, "activity_ids", << >>)
        new_priority == strip(Get(form, "priority", ""))
    IN
    /\ UNCHANGED <<updates, goals, today, sessions, process>>
    /\ IF activity_ids = << >> \/ new_priority \notin AllowedPriority
       THEN /\ UNCHANGED activities
            /\ last' = Response("bulk_update_priority", 0, form, 400, "none")
       ELSE IF fault = "commit"
       THEN /\ UNCHANGED activities
            /\ last' = Response("bulk_update_priority", 0, form, 500, "none")
       ELSE /\ activities' = [i \in DOMAIN activities |->
                   [activities[i] EXCEPT !.priority = new_priority]]
            /\ last' = Response("bulk_update_priority", Rows(activities),
                                form, 200, "none")

BulkUpdatePriority(form, fault) ==
    LET activity_ids == Get(form, "activity_ids", << >>)
        new_priority == strip(Get(form, "priority", ""))
        matched == DOMAIN activities \cap Range(activity_ids)
    IN
    /\ UNCHANGED <<updates, goals, today, sessions, process>>
    /\ IF activity_ids = << >> \/ new_priority \notin AllowedPriority
       THEN /\ UNCHANGED activities
            /\ last' = Response("bulk_update_priority", 0, form, 400, "none")
       ELSE IF fault = "commit"
       THEN /\ UNCHANGED activities
            /\ last' = Response("bulk_update_priority", 0, form, 500, "none")
       ELSE /\ activities' = [i \in DOMAIN activities |->
                   IF i \in matched
                   THEN [activities[i] EXCEPT !.priority = new_priority]
                   ELSE activities[i]]
            /\ last' = Response("bulk_update_priority", Cardinality(matched),
                                form, 200, "none")

\* ------------------------------------------------------------------- goals
\* date.weekday(): day 0 (2024-01-01) is a Monday
weekday(d) == d % 7

\* POST /goal/add
\* (variant) the goal is filed under today
AddGoal_week_of_today(form, fault) ==
    LET text_content ==
            IF Get(form, "text", << >>) # << >> THEN form.text
            ELSE Get(form, "goal_text", << >>)
    IN
    /\ UNCHANGED <<activities, updates, today, sessions, process>>
    /\ IF Strip(text_content) = << >> \/ Len(Strip(text_content)) < 3
          \/ fault = "commit"
       THEN /\ UNCHANGED goals
            /\ last' = Response("add_goal", 0, form, 302, "error")
       ELSE /\ goals' = Put(goals, NextId(goals),
                   [text |-> text_content, week_of |-> today,
                    is_complete |-> FALSE])
            /\ last' = Response("add_goal", NextId(goals), form, 302, "success")

AddGoal(form, fault) ==
    LET text_content ==
            IF Get(form, "text", << >>) # << >> THEN form.text
            ELSE Get(form, "goal_text", << >>)
        start_of_week == today - weekday(today)
    IN
    /\ UNCHANGED <<activities, updates, today, sessions, process>>
    /\ IF Strip(text_content) = << >> \/ Len(Strip(text_content)) < 3
          \/ fault = "commit"
       THEN /\ UNCHANGED goals
            /\ last' = Response("add_goal", 0, form, 302, "error")
       ELSE /\ goals' = Put(goals, NextId(goals),
                   [text |-> text_content, week_of |-> start_of_week,
                    is_complete |-> FALSE])
            /\ last' = Response("add_goal", NextId(goals), form, 302, "success")

\* GET /goal/toggle/<id>
\* (variant) every goal is toggled
ToggleGoal_every_goal(id, fault) ==
    /\ UNCHANGED <<activities, updates, today, sessions, process>>
    /\ IF id \notin DOMAIN goals
       THEN /\ UNCHANGED goals
            /\ last' = Response("toggle_goal", id, << >>, 404, "none")
       ELSE IF fault = "commit"
       THEN /\ UNCHANGED goals
            /\ last' = Response("toggle_goal", id, << >>, 302, "error")
       ELSE /\ goals' = [g \in DOMAIN goals |->
                            [goals[g] EXCEPT !.is_complete = ~@]]
            /\ last' = Response("toggle_goal", id, << >>, 302, "none")

ToggleGoal(id, fault) ==
    /\ UNCHANGED <<activities, updates, today, sessions, process>>
    /\ IF id \notin DOMAIN goals
       THEN /\ UNCHANGED goals
            /\ last' = Response("toggle_goal", id, << >>, 404, "none")
       ELSE IF fault = "commit"
       THEN /\ UNCHANGED goals
            /\ last' = Response("toggle_goal", id, << >>, 302, "error")
       ELSE /\ goals' = [goals EXCEPT ![id].is_complete = ~@]
            /\ last' = Response("toggle_goal", id, << >>, 302, "none")

\* a request without parameters
NoArgs == [x \in {} |-> ""]

\* the calendar day advances
NextDay(limit) ==
    /\ today < limit
    /\ today' = today + 1
    /\ UNCHANGED <<activities, updates, goals, last, sessions, process>>

Tick == NextDay(MaxDay)

\* ------------------------------------------------------ dashboard: streak
\* the UTC calendar days of the Updates (created_at is kept by the day)
dates_with_updates(upds) == {upds[u].created_at : u \in DOMAIN upds}

\* (variant) the days with updates are counted, gaps or not
streak_days_counts_days(dates, check_date) ==
    Cardinality({d \in dates : d <= check_date})

\* while check_date in dates_with_updates: streak_days += 1; check_date -= 1
RECURSIVE streak_days(_, _)
streak_days(dates, check_date) ==
    IF check_date \in dates
    THEN 1 + streak_days(dates, check_date - 1)
    ELSE 0

\* ------------------------------------------------------------- dashboard
\* GET /.  Query.all() gives the rows in rowid order.
Nth(D, i) == CHOOSE d \in D : Cardinality({e \in D : e < d}) = i - 1

all(ids) == [i \in 1..Cardinality(ids) |-> Nth(ids, i)]

\* column LIKE '%pattern%': the pattern occurs in the text (the model's texts
\* are lower-case and hold no wildcard)
like(text, pattern) ==
    \E i \in 0..(Len(text) - Len(pattern)) :
        SubSeq(text, i + 1, i + Len(pattern)) = pattern

\* priority_order.get(x.priority, 4)
priority_order(p) ==
    IF p = "High" THEN 1 ELSE IF p = "Medium" THEN 2
    ELSE IF p = "Low" THEN 3 ELSE 4

\* x.status or '' as a sort key: the strings in their alphabetical order
status_order(s) ==
    IF s = "Closed" THEN 1 ELSE IF s = "NA" THEN 2
    ELSE IF s = "Ongoing" THEN 3 ELSE 0

\* (variant) a descending sort that sorts ascending and reverses the list
RECURSIVE sorted_then_reversed(_, _, _)
sorted_then_reversed(seq, key, reverse) ==
    IF reverse
    THEN LET asc == sorted_then_reversed(seq, key, FALSE)
         IN [i \in DOMAIN asc |-> asc[Len(asc) + 1 - i]]
    ELSE IF seq = << >> THEN << >>
    ELSE LET rest == sorted_then_reversed(SubSeq(seq, 1, Len(seq) - 1), key, FALSE)
             x == seq[Len(seq)]
             n == Cardinality({i \in DOMAIN rest : key[rest[i]] <= key[x]})
         IN SubSeq(rest, 1, n) \o <<x>> \o SubSeq(rest, n + 1, Len(rest))

\* list.sort(key=..., reverse=...) / sorted(...): a stable sort; with reverse
\* the keys descend and elements with equal keys keep their original order
RECURSIVE sorted(_, _, _)
sorted(seq, key, reverse) ==
    IF seq = << >> THEN << >>
    ELSE LET rest == sorted(SubSeq(seq, 1, Len(seq) - 1), key, reverse)
             x == seq[Len(seq)]
             before(y) == IF reverse THEN key[y] >= key[x] ELSE key[y] <= key[x]
             n == Cardinality({i \in DOMAIN rest : before(rest[i])})
         IN SubSeq(rest, 1, n) \o <<x>> \o SubSeq(rest, n + 1, Len(rest))

\* seq[:n]
first(seq, n) == SubSeq(seq, 1, IF Len(seq) < n THEN Len(seq) ELSE n)

\* the filtered and sorted list of the activities that are not Closed
listed(acts, args) ==
    LET search == Strip(Get(args, "search", << >>))
        filter_priority == strip(Get(args, "priority", ""))
        filter_status == strip(Get(args, "status", ""))
        has_blockers == Get(args, "has_blockers", "")
        query == {i \in DOMAIN acts :
                    /\ acts[i].status # "Closed"
                    /\ search # << >>
                       => \/ like(acts[i].activity_desc, search)
                          \/ like(acts[i].source, search)
                          \/ like(acts[i].blocking_points, search)
                    /\ filter_priority # "" => acts[i].priority = filter_priority
                    /\ filter_status # "" => acts[i].status = filter_status
                    /\ has_blockers # "" => acts[i].blocking_points # << >>}
        sort_by == Get(args, "sort", "priority")
        sort_dir == Get(args, "dir", "asc")
        key == [i \in query |->
                   IF sort_by = "start_date" THEN acts[i].start_date
                   ELSE IF sort_by = "status" THEN status_order(acts[i].status)
                   ELSE priority_order(acts[i].priority)]
    IN sorted(all(query), key, sort_dir = "desc")

\* the rows of one activity in the updates table
UpdatesOf(upds, id) == {u \in DOMAIN upds : upds[u].activity_id = id}

\* days since the activity's latest Update (created_at is kept by the day),
\* days since start_date when it has none
days_since(acts, upds, id, day) ==
    IF UpdatesOf(upds, id) # {}
    THEN day - Max({upds[u].created_at : u \in UpdatesOf(upds, id)})
    ELSE day - acts[id].start_date

days_running(acts, id, day) == day - acts[id].start_date

\* the thresholds and the length of the suggestion lists
StaleDays == 14

LongRunningDays == 30

TopN == 5

\* a suggestion list: the activity ids with the day count shown for each
entries(ids, days) == [k \in DOMAIN ids |-> [id |-> ids[k], days |-> days[ids[k]]]]

\* (variant) an activity is stale from the 13th day on
smart_suggestions_stale_at_13(acts, upds, day) ==
    LET ongoing == {i \in DOMAIN acts : acts[i].status = "Ongoing"}
        since == [i \in ongoing |-> days_since(acts, upds, i, day)]
        running == [i \in ongoing |-> days_running(acts, i, day)]
        stale == {i \in ongoing : since[i] >= StaleDays - 1}
        long == {i \in ongoing : running[i] >= LongRunningDays}
    IN [stale_activities |->
            first(entries(sorted(all(stale), since, TRUE), since), TopN),
        long_running |->
            first(entries(sorted(all(long), running, TRUE), running), TopN)]

smart_suggestions(acts, upds, day) ==
    LET ongoing == {i \in DOMAIN acts : acts[i].status = "Ongoing"}
        since == [i \in ongoing |-> days_since(acts, upds, i, day)]
        running == [i \in ongoing |-> days_running(acts, i, day)]
        stale == {i \in ongoing : since[i] >= StaleDays}
        long == {i \in ongoing : running[i] >= LongRunningDays}
    IN [stale_activities |->
            first(entries(sorted(all(stale), since, TRUE), since), TopN),
        long_running |->
            first(entries(sorted(all(long), running, TRUE), running), TopN)]

\* the counters of the dashboard
dashboard_stats(acts, upds, day) ==
    LET ongoing == {i \in DOMAIN acts : acts[i].status = "Ongoing"}
    IN [active_count |-> Cardinality(ongoing),
        high_priority_count |->
            Cardinality({i \in ongoing : acts[i].priority = "High"}),
        blocker_count |->
            Cardinality({i \in ongoing : Strip(acts[i].blocking_points) # << >>}),
        streak_days |-> streak_days(dates_with_updates(upds), day),
        updates_this_week |->
            Cardinality({u \in DOMAIN upds : day - upds[u].created_at < 7})]

\* the handler reads: it assigns days_since and days_running to the objects it
\* loaded, which are no columns, and never commits; the session goes with the
\* request
Dashboard(args) ==
    LET start_of_week == today - weekday(today) IN
    /\ last' = [op |-> "dashboard", id |-> 0, code |-> 200, flash |-> "none",
                args |-> args,
                activities |-> listed(activities, args),
                goals |-> {g \in DOMAIN goals : goals[g].week_of = start_of_week},
                dashboard_stats |->
                    dashboard_stats(activities, updates, today),
                smart_suggestions |->
                    smart_suggestions(activities, updates, today)]
    /\ UNCHANGED <<store, today, sessions, process>>

\* --------------------------------------------------------------- analytics
\* GET /analytics: the statistics of the template context (the counts)
stats(acts) ==
    LET count(S) == Cardinality(S)
        with_status(v) == {i \in DOMAIN acts : acts[i].status = v}
        with_priority(v) == {i \in DOMAIN acts : acts[i].priority = v}
        ongoing_count == count(with_status("Ongoing"))
        blocker_count == count({i \in with_status("Ongoing") :
                                  acts[i].blocking_points # << >>})
        none_by_priority ==
            \A v \in AllowedPriority : with_priority(v) = {}
    IN
    [total_activities |-> count(DOMAIN acts),
     ongoing_count |-> ongoing_count,
     blocker_count |-> blocker_count,
     priority_high |-> count(with_priority("High")),
     priority_medium |-> count(with_priority("Medium")),
     priority_low |-> IF none_by_priority THEN 1
                      ELSE count(with_priority("Low")),
     status_ongoing |-> ongoing_count,
     status_closed |-> count(with_status("Closed")),
     status_na |-> count(with_status("NA"))]

\* the analytics page's long-running list: the Ongoing activities by the days
\* since start_date, the first five
long_running(acts, day) ==
    LET ongoing == {i \in DOMAIN acts : acts[i].status = "Ongoing"}
        running == [i \in ongoing |-> days_running(acts, i, day)]
    IN first(entries(sorted(all(ongoing), running, TRUE), running), TopN)

\* the analytics page's stale list: the Ongoing activities with 14 days or
\* more since the latest Update, by those days
stale_activities(acts, upds, day) ==
    LET ongoing == {i \in DOMAIN acts : acts[i].status = "Ongoing"}
        since == [i \in ongoing |-> days_since(acts, upds, i, day)]
        stale == {i \in ongoing : since[i] >= StaleDays}
    IN entries(sorted(all(stale), since, TRUE), since)

template_context(acts, upds, day) ==
    [stats |-> stats(acts),
     long_running_activities |-> long_running(acts, day),
     stale_activities_list |-> stale_activities(acts, upds, day)]

\* the response of /analytics at time `at` with template context `data`
Page(at, data) ==
    [op |-> "analytics", id |-> 0, code |-> 200, flash |-> "none",
     at |-> at, data |-> data]

\* (variant) the cached context is still served at the expiry time itself
Analytics_served_at_expiry ==
    LET now == clock IN
    /\ UNCHANGED <<store, today, sessions, clock, lockfile, instances, overlapped>>
    /\ IF analytics_cache.expires # None /\ now <= analytics_cache.expires[1]
       THEN /\ last' = Page(now, analytics_cache.data[1])
            /\ UNCHANGED analytics_cache
       ELSE LET context == template_context(activities, updates, today) IN
            /\ analytics_cache' = [data |-> Some(context),
                                   expires |-> Some(now + CacheMinutes)]
            /\ last' = Page(now, context)

Analytics ==
    LET now == clock IN
    /\ UNCHANGED <<store, today, sessions, clock, lockfile, instances, overlapped>>
    /\ IF analytics_cache.expires # None /\ now < analytics_cache.expires[1]
       THEN /\ last' = Page(now, analytics_cache.data[1])
            /\ UNCHANGED analytics_cache
       ELSE LET context == template_context(activities, updates, today) IN
            /\ analytics_cache' = [data |-> Some(context),
                                   expires |-> Some(now + CacheMinutes)]
            /\ last' = Page(now, context)

\* a minute passes on the wall clock
Minute ==
    /\ clock < MaxMinute
    /\ clock' = clock + 1
    /\ UNCHANGED <<store, today, last, sessions, analytics_cache,
                   lockfile, instances, overlapped>>

\* ------------------------------------------- search, report and exports
\* These handlers, like dashboard and analytics, only read: they assign no
\* column of what they load and never commit, and the session is removed
\* with the request.
\* GET /search?q=: up to 20 matches, by status, priority and start_date, all
\* descending (the strings in alphabetical order)
search_order(activity) ==
    status_order(activity.status) * 10000
    + (IF activity.priority = "Medium" THEN 3
       ELSE IF activity.priority = "Low" THEN 2 ELSE 1) * 1000
    + activity.start_date

search_activities(acts, q) ==
    LET query_str == Strip(q)
        results == {i \in DOMAIN acts :
                      \/ like(acts[i].activity_desc, query_str)
                      \/ like(acts[i].tags, query_str)
                      \/ like(acts[i].blocking_points, query_str)
                      \/ like(acts[i].observations, query_str)
                      \/ like(acts[i].source, query_str)}
        key == [i \in results |-> search_order(acts[i])]
    IN IF query_str = << >> \/ Len(query_str) < 2 THEN << >>
       ELSE first(sorted(all(results), key, TRUE), 20)

Search(q) ==
    /\ last' = [op |-> "search", id |-> 0, code |-> 200, flash |-> "none",
                results |-> search_activities(activities, q)]
    /\ UNCHANGED <<store, today, sessions, process>>

\* GET|POST /report: the activities that start within the range, by
\* start_date; a GET lists none; a missing field is a 400, a string that is
\* no date an unhandled ValueError
Report(method, form) ==
    /\ UNCHANGED <<store, today, sessions, process>>
    /\ IF method = "GET"
       THEN last' = [op |-> "report", id |-> 0, code |-> 200, flash |-> "none",
                     activities |-> << >>]
       ELSE IF {"start_date", "end_date"} \ DOMAIN form # {}
       THEN last' = [op |-> "report", id |-> 0, code |-> 400, flash |-> "none",
                     activities |-> << >>]
       ELSE IF ~ValidDate(form.start_date) \/ ~ValidDate(form.end_date)
       THEN last' = [op |-> "report", id |-> 0, code |-> 500, flash |-> "none",
                     activities |-> << >>]
       ELSE LET start_date == strptime(form.start_date)
                end_date == strptime(form.end_date)
                found == {i \in DOMAIN activities :
                            /\ activities[i].start_date >= start_date
                            /\ activities[i].start_date <= end_date}
                key == [i \in found |-> activities[i].start_date]
            IN last' = [op |-> "report", id |-> 0, code |-> 200,
                        flash |-> "none",
                        activities |-> sorted(all(found), key, FALSE)]

\* GET /export/csv: one row per activity, the latest start_date first, with
\* the number of its Updates and the time of the latest one ('' without one)
ExportCsv ==
    LET key == [i \in DOMAIN activities |-> activities[i].start_date]
        ids == sorted(all(DOMAIN activities), key, TRUE)
        row(i) ==
            [id |-> i, status |-> activities[i].status,
             update_count |-> Cardinality(UpdatesOf(updates, i)),
             latest_update_date |->
                 IF UpdatesOf(updates, i) = {} THEN None
                 ELSE Some(Max({updates[u].created_at :
                                  u \in UpdatesOf(updates, i)}))]
    IN
    /\ last' = [op |-> "export_csv", id |-> 0, code |-> 200, flash |-> "none",
                rows |-> [k \in DOMAIN ids |-> row(ids[k])]]
    /\ UNCHANGED <<store, today, sessions, process>>

\* GET /export/all: the ZIP with the tables and the manifest of their row
\* counts.  Without a database file the handler calls db.create_all(), which
\* creates the tables that are missing and touches no row, and answers 404.
\* (variant) the tables are dropped and created again
ExportAll_recreates_tables(file_exists) ==
    /\ UNCHANGED <<today, sessions, process>>
    /\ IF ~file_exists
       THEN /\ activities' = EmptyTable
            /\ updates' = EmptyTable
            /\ goals' = EmptyTable
            /\ last' = [op |-> "export_all", id |-> 0, code |-> 404,
                        flash |-> "none", counts |-> None]
       ELSE /\ UNCHANGED store
            /\ last' = [op |-> "export_all", id |-> 0, code |-> 200,
                        flash |-> "none",
                        counts |-> Some([activities |-> Rows(activities),
                                         goals |-> Rows(goals),
                                         updates |-> Rows(updates)])]

ExportAll(file_exists) ==
    /\ UNCHANGED <<store, today, sessions, process>>
    /\ IF ~file_exists
       THEN last' = [op |-> "export_all", id |-> 0, code |-> 404,
                     flash |-> "none", counts |-> None]
       ELSE last' = [op |-> "export_all", id |-> 0, code |-> 200,
                     flash |-> "none",
                     counts |-> Some([activities |-> Rows(activities),
                                      goals |-> Rows(goals),
                                      updates |-> Rows(updates)])]

\* --------------------------------------- the desktop single-instance lock
\* src/desktop_app.py: main() calls acquire_single_instance_lock(app) with
\* auto_terminate off and with force as ACTIVITY_TRACKER_FORCE_LOCK says (off
\* unless the instance is started forced).  Each system call is one step, so that the
\* instances interleave between them.  The lock file is absent (None) or
\* Some([creator, content]): which instance's os.open created it and the pid
\* written into it, 0 while nothing is written yet.
Pids == 1..MaxInstances

NotStarted == [pc |-> "not started", existing_pid |-> 0, force |-> FALSE]

Acquiring == {"fast path", "write", "inspect", "probe", "remove", "retry",
              "force remove"}

At(p, pc) == [instances EXCEPT ![p].pc = pc]

\* (variant) a probe that never finds the process
process_exists_never(pid) == FALSE

\* _process_exists(pid): pid > 0 and a process with that pid is running
process_exists(pid) ==
    /\ pid > 0
    /\ pid \in Pids
    /\ instances[pid].pc \notin {"not started", "exited", "dead"}

\* int(raw) if raw.isdigit() else -1, the file missing or unreadable: -1
read_pid(file) ==
    IF file = None THEN -1
    ELSE IF file[1].content = 0 THEN -1
    ELSE file[1].content

\* main() starts and enters acquire_single_instance_lock
Start(p) ==
    /\ instances[p].pc = "not started"
    /\ instances' = At(p, "fast path")
    /\ overlapped' = (overlapped
                        \/ \E q \in Pids \ {p} : instances[q].pc \in Acquiring)
    /\ UNCHANGED <<store, today, last, sessions, analytics_cache, clock, lockfile>>

\* _write_lock(), first half: os.open(lock_path, O_CREAT | O_EXCL | O_RDWR)
FastPath(p) ==
    /\ instances[p].pc = "fast path"
    /\ IF lockfile = None
       THEN /\ lockfile' = Some([creator |-> p, content |-> 0])
            /\ instances' = At(p, "write")
       ELSE /\ UNCHANGED lockfile
            /\ instances' = At(p, "inspect")
    /\ UNCHANGED <<store, today, last, sessions, analytics_cache, clock, overlapped>>

\* _write_lock(), second half: os.write(fd, pid) to the file that was opened,
\* whether or not it is still the file at lock_path; the fd is returned
WritePid(p) ==
    /\ instances[p].pc = "write"
    /\ lockfile' = IF lockfile # None /\ lockfile[1].creator = p
                   THEN Some([creator |-> p, content |-> p])
                   ELSE lockfile
    /\ instances' = At(p, "running")
    /\ UNCHANGED <<store, today, last, sessions, analytics_cache, clock, overlapped>>

\* the lock exists: read the pid it holds
Inspect(p) ==
    /\ instances[p].pc = "inspect"
    /\ instances' = [instances EXCEPT
           ![p].pc = "probe", ![p].existing_pid = read_pid(lockfile)]
    /\ UNCHANGED <<store, today, last, sessions, analytics_cache, clock,
                   lockfile, overlapped>>

\* stale (no pid, or its process is gone): remove and retry; alive: None,
\* unless force is on
Probe(p) ==
    /\ instances[p].pc = "probe"
    /\ instances' =
          IF instances[p].existing_pid = -1
             \/ ~process_exists(instances[p].existing_pid)
          THEN At(p, "remove")
          ELSE IF instances[p].force THEN At(p, "force remove")
          ELSE At(p, "refused")
    /\ UNCHANGED <<store, today, last, sessions, analytics_cache, clock,
                   lockfile, overlapped>>

\* os.remove(lock_path), errors ignored
RemoveStale(p) ==
    /\ instances[p].pc = "remove"
    /\ lockfile' = None
    /\ instances' = At(p, "retry")
    /\ UNCHANGED <<store, today, last, sessions, analytics_cache, clock, overlapped>>

\* main() starts with ACTIVITY_TRACKER_FORCE_LOCK=1
StartForced(p) ==
    /\ instances[p].pc = "not started"
    /\ instances' = [instances EXCEPT ![p].pc = "fast path", ![p].force = TRUE]
    /\ overlapped' = (overlapped
                        \/ \E q \in Pids \ {p} : instances[q].pc \in Acquiring)
    /\ UNCHANGED <<store, today, last, sessions, analytics_cache, clock, lockfile>>

\* force: os.remove(lock_path), an error returns None; then _write_lock()
ForceRemove(p) ==
    /\ instances[p].pc = "force remove"
    /\ IF lockfile = None
       THEN /\ UNCHANGED lockfile
            /\ instances' = At(p, "refused")
       ELSE /\ lockfile' = None
            /\ instances' = At(p, "retry")
    /\ UNCHANGED <<store, today, last, sessions, analytics_cache, clock, overlapped>>

\* _write_lock() again; any exception returns None
Retry(p) ==
    /\ instances[p].pc = "retry"
    /\ IF lockfile = None
       THEN /\ lockfile' = Some([creator |-> p, content |-> 0])
            /\ instances' = At(p, "write")
       ELSE /\ UNCHANGED lockfile
            /\ instances' = At(p, "refused")
    /\ UNCHANGED <<store, today, last, sessions, analytics_cache, clock, overlapped>>

\* main() ends: without the lock it returns; with it, the finally block
\* closes the fd and removes lock_path
Exit(p) ==
    /\ instances[p].pc \in {"running", "refused"}
    /\ lockfile' = IF instances[p].pc = "running" THEN None ELSE lockfile
    /\ instances' = At(p, "exited")
    /\ UNCHANGED <<store, today, last, sessions, analytics_cache, clock, overlapped>>

\* the process is killed: nothing is cleaned up
Crash(p) ==
    /\ instances[p].pc \in {"write", "running"}
    /\ instances' = At(p, "dead")
    /\ UNCHANGED <<store, today, last, sessions, analytics_cache, clock,
                   lockfile, overlapped>>

NextLock ==
    \/ \E p \in Pids : Start(p)
    \/ \E p \in Pids : FastPath(p)
    \/ \E p \in Pids : WritePid(p)
    \/ \E p \in Pids : Inspect(p)
    \/ \E p \in Pids : Probe(p)
    \/ \E p \in Pids : RemoveStale(p)
    \/ \E p \in Pids : Retry(p)
    \/ \E p \in Pids : Exit(p)
    \/ \E p \in Pids : Crash(p)

\* the instances, some of them started with the lock forced
NextForce ==
    \/ NextLock
    \/ \E p \in Pids : StartForced(p)
    \/ \E p \in Pids : ForceRemove(p)

\* ------------------------------------------------------------- the inputs
Faults == {"none", "commit"}

AddFaults == {"none", "commit1", "commit2"}

AddBase ==
    [activity_desc |-> <<" ", "a", "b", "c">>, source |-> << >>,
     start_date |-> "2024-01-01", end_date |-> "",
     blocking_points |-> << >>, status |-> "Ongoing",
     priority |-> "Medium", tags |-> << >>, initial_update |-> << >>]

AddForms ==
    {[AddBase EXCEPT !.status = s, !.initial_update = n, !.blocking_points = b] :
        s \in {"Ongoing", "Closed"}, n \in {<< >>, <<"u", " ">>},
        b \in {<< >>, <<"b">>}}
    \cup {[AddBase EXCEPT !.activity_desc = <<"a", "b", " ">>],
          [AddBase EXCEPT !.status = "Done"],
          [AddBase EXCEPT !.priority = "Urgent"],
          [AddBase EXCEPT !.start_date = "01/02/2024"],
          [activity_desc |-> <<"a", "b", "c">>, start_date |-> "2024-01-01"]}

EditBase ==
    [activity_desc |-> <<"a", "b", "c">>, source |-> << >>,
     start_date |-> "2024-01-01", end_date |-> "",
     blocking_points |-> << >>, status |-> "Ongoing",
     priority |-> "Medium", tags |-> << >>,
     new_update |-> << >>, closing_note |-> << >>]

EditChanged ==
    [activity_desc |-> << >>, source |-> <<"s">>,
     start_date |-> "2024-01-02", end_date |-> "2024-01-02",
     blocking_points |-> <<"b">>, status |-> "Ongoing",
     priority |-> "High", tags |-> <<"t">>,
     new_update |-> << >>, closing_note |-> << >>]

EditForms ==
    {[f EXCEPT !.status = s, !.new_update = u, !.closing_note = c] :
        f \in {EditBase, EditChanged}, s \in {"Ongoing", "Closed"},
        u \in {<< >>, <<"v", " ">>}, c \in {<< >>, <<" ", "n">>}}
    \cup {[EditChanged EXCEPT !.status = "Done"],
          [EditChanged EXCEPT !.priority = "Urgent"],
          [EditChanged EXCEPT !.start_date = ""],
          [start_date |-> "2024-01-02", status |-> "Closed"]}

UpdateForms ==
    {[update_text |-> t, blocking_points |-> b] :
        t \in {<<" ">>, <<"u">>, <<" ", "v", " ">>},
        b \in {<<" ">>, <<" ", "b">>}}
    \cup {[update_text |-> <<"u">>], [blocking_points |-> <<"b">>]}

StatusForms ==
    {[status |-> s, closing_note |-> c] :
        s \in {"Ongoing", "Closed", "NA", "Done"},
        c \in {<< >>, <<"n", " ">>}}
    \cup {[closing_note |-> <<"n">>], [status |-> " NA "]}

BulkForms ==
    {[activity_ids |-> ids, priority |-> p] :
        ids \in {<< >>, <<1>>, <<1, 2>>, <<2, 3>>},
        p \in {"High", "Urgent"}}
    \cup {[activity_ids |-> <<1>>, priority |-> "Low"], [priority |-> "Low"],
          [activity_ids |-> <<1>>, priority |-> " High "],
          [activity_ids |-> <<1, 1>>, priority |-> "Medium"]}

GoalForms == {[text |-> <<"g", "o">>], [text |-> <<" ", "g", "o", "a", "l">>],
              [goal_text |-> <<"g", "o", "a", "l">>],
              [text |-> <<" ", "g", "o", " ">>], [text |-> <<" ", " ", " ">>],
              [text |-> << >>, goal_text |-> <<"g", "o", "a", "l">>],
              NoArgs}

ActivityIds == 1..(MaxActivities + 1)

GoalIds == 1..(MaxGoals + 1)

\* The requests: every form on the ids an activity can have, one request on
\* an id no activity ever has, and one request per handler whose commit fails.
Request(id, form, fault) == [id |-> id, form |-> form, fault |-> fault]

AddRequests ==
    {Request(0, f, "none") : f \in AddForms}
    \cup {Request(0, [AddBase EXCEPT !.initial_update = <<"u">>], x) :
            x \in {"commit1", "commit2"}}

EditRequests ==
    {Request(i, f, "none") : i \in 1..MaxActivities, f \in EditForms}
    \cup {Request(i, [EditChanged EXCEPT !.new_update = <<"v">>], "commit") :
            i \in 1..MaxActivities}
    \cup {Request(MaxActivities + 1, EditBase, "none")}

UpdateRequests ==
    {Request(i, f, "none") : i \in 1..MaxActivities, f \in UpdateForms}
    \cup {Request(i, [update_text |-> <<"u">>], "commit") : i \in 1..MaxActivities}
    \cup {Request(MaxActivities + 1, [update_text |-> <<"u">>], "none")}

StatusRequests ==
    {Request(i, f, "none") : i \in 1..MaxActivities, f \in StatusForms}
    \cup {Request(i, [status |-> "NA"], "commit") : i \in 1..MaxActivities}
    \cup {Request(MaxActivities + 1, [status |-> "NA"], "none")}

DeleteRequests ==
    {Request(i, << >>, x) : i \in 1..MaxActivities, x \in Faults}
    \cup {Request(MaxActivities + 1, << >>, "none")}

BulkRequests ==
    {Request(0, f, "none") : f \in BulkForms}
    \cup {Request(0, [activity_ids |-> <<1>>, priority |-> "High"], "commit")}

\* ------------------------------------------------------- the specification
Init ==
    /\ activities = EmptyTable
    /\ updates = EmptyTable
    /\ goals = EmptyTable
    /\ today = 0
    /\ last = Response("none", 0, << >>, 0, "none")
    /\ sessions = [t \in Threads |-> Idle]
    /\ analytics_cache = [data |-> None, expires |-> None]
    /\ clock = 0
    /\ lockfile = None
    /\ instances = [p \in Pids |-> NotStarted]
    /\ overlapped = FALSE

Next ==
    \/ /\ Rows(activities) < MaxActivities
       /\ \E r \in AddRequests : AddActivity(r.form, r.fault)
    \/ \E r \in EditRequests : EditActivity(r.id, r.form, r.fault)
    \/ \E r \in UpdateRequests : AddUpdate(r.id, r.form, r.fault)
    \/ \E r \in StatusRequests : UpdateStatus(r.id, r.form, r.fault)
    \/ \E r \in DeleteRequests : DeleteActivity(r.id, r.fault)
    \/ \E r \in BulkRequests : BulkUpdatePriority(r.form, r.fault)
    \/ Tick

Spec == Init /\ [][Next]_vars

\* ------------------------------------------- several activities, and goals
\* The requests that add and remove rows, on a store that holds up to
\* ManyActivities activities and the weekly goals.
MultiAddRequests ==
    {Request(0, AddBase, "none"),
     Request(0, [AddBase EXCEPT !.initial_update = <<"u">>,
                                !.blocking_points = <<"b">>], "none")}

MultiUpdateRequests ==
    {Request(i, [update_text |-> <<"v">>], "none") : i \in 1..ManyActivities}

MultiDeleteRequests ==
    {Request(i, << >>, x) : i \in 1..(ManyActivities + 1), x \in Faults}

GoalRequests == {Request(0, f, x) : f \in GoalForms, x \in Faults}

ToggleRequests == {Request(i, << >>, x) : i \in GoalIds, x \in Faults}

MultiBulkRequests ==
    {Request(0, [activity_ids |-> ids, priority |-> p], "none") :
        ids \in {<< >>, <<1>>, <<2>>, <<1, 2>>, <<2, 3>>, <<1, 1>>},
        p \in {"High", "Low", " High ", "Urgent"}}
    \cup {Request(0, [priority |-> "Low"], "none"),
          Request(0, [activity_ids |-> <<1>>], "none"),
          Request(0, [activity_ids |-> <<1>>, priority |-> "High"], "commit")}

NextMulti ==
    \/ /\ Rows(activities) < ManyActivities
       /\ \E r \in MultiAddRequests : AddActivity(r.form, r.fault)
    \/ \E r \in MultiUpdateRequests : AddUpdate(r.id, r.form, r.fault)
    \/ \E r \in MultiDeleteRequests : DeleteActivity(r.id, r.fault)
    \/ /\ Rows(goals) < MaxGoals
       /\ \E r \in GoalRequests : AddGoal(r.form, r.fault)
    \/ \E r \in ToggleRequests : ToggleGoal(r.id, r.fault)
    \/ \E r \in MultiBulkRequests : BulkUpdatePriority(r.form, r.fault)

SpecMulti == Init /\ [][NextMulti]_vars

\* the analytics page requested while time passes and the store is written
AnalyticsWrites ==
    {Request(i, f, "none") :
        i \in 1..MaxActivities,
        f \in {[status |-> "NA"],
               [status |-> "Closed", closing_note |-> <<"n">>]}}

NextAnalytics ==
    \/ /\ Rows(activities) < MaxActivities
       /\ \E r \in MultiAddRequests : AddActivity(r.form, r.fault)
    \/ \E r \in AnalyticsWrites : UpdateStatus(r.id, r.form, r.fault)
    \/ \E i \in 1..MaxActivities : DeleteActivity(i, "none")
    \/ Analytics
    \/ Minute

SpecAnalytics == Init /\ [][NextAnalytics]_vars

\* the dashboard's streak over stores that hold one activity and, for each
\* day of a set of days up to today, one Update appended on that day
StreakDays == 0..MaxStreakDay

UpdatesOn(D) ==
    [i \in 1..Cardinality(D) |-> Update(1, <<"u">>, Nth(D, i), Some(<< >>))]

InitStreak ==
    \E D \in SUBSET StreakDays, d \in StreakDays :
        /\ \A e \in D : e <= d
        /\ today = d
        /\ updates = UpdatesOn(D)
        /\ activities = Put(EmptyTable, 1,
               [NewActivity(AddBase) EXCEPT
                   !.observations = IF D = {} THEN << >> ELSE <<"u">>])
        /\ goals = EmptyTable
        /\ last = Response("none", 0, << >>, 0, "none")
        /\ sessions = [t \in Threads |-> Idle]
        /\ analytics_cache = [data |-> None, expires |-> None]
        /\ clock = 0
        /\ lockfile = None
        /\ instances = [p \in Pids |-> NotStarted]
        /\ overlapped = FALSE

NextStreak ==
    \/ Dashboard(NoArgs)
    \/ NextDay(MaxStreakDay)

SpecStreak == InitStreak /\ [][NextStreak]_vars

\* the suggestion lists over stores of up to MaxListed activities, each of
\* one of the kinds: running for 30 days with no Update; started a day later
\* with an Update that is 13 days old; started 13 days ago with no Update;
\* Closed.  A day passes.
SuggestKinds ==
    {[status |-> "Ongoing", start_date |-> 0, updated |-> None],
     [status |-> "Ongoing", start_date |-> 1,
      updated |-> Some(LongRunningDays - StaleDays + 1)],
     [status |-> "Ongoing", start_date |-> LongRunningDays - StaleDays + 1,
      updated |-> None],
     [status |-> "Closed", start_date |-> 0, updated |-> None]}

\* the store that holds an activity of kind kinds[i] under id i, and the
\* Updates of those that have one
ActivitiesOf(kinds) ==
    [i \in DOMAIN kinds |->
        [NewActivity(AddBase) EXCEPT
            !.status = kinds[i].status,
            !.start_date = kinds[i].start_date,
            !.observations = IF kinds[i].updated = None THEN << >> ELSE <<"u">>]]

UpdatesFor(kinds) ==
    LET U == {i \in DOMAIN kinds : kinds[i].updated # None}
    IN [k \in 1..Cardinality(U) |->
           Update(Nth(U, k), <<"u">>, kinds[Nth(U, k)].updated[1], Some(<< >>))]

InitSuggest ==
    \E n \in 0..MaxListed : \E kinds \in [1..n -> SuggestKinds] :
        /\ activities = ActivitiesOf(kinds)
        /\ updates = UpdatesFor(kinds)
        /\ goals = EmptyTable
        /\ today = LongRunningDays
        /\ last = Response("none", 0, << >>, 0, "none")
        /\ sessions = [t \in Threads |-> Idle]
        /\ analytics_cache = [data |-> None, expires |-> None]
        /\ clock = 0
        /\ lockfile = None
        /\ instances = [p \in Pids |-> NotStarted]
        /\ overlapped = FALSE

NextSuggest ==
    \/ Dashboard(NoArgs)
    \/ Analytics
    \/ NextDay(LongRunningDays + MaxDay)

SpecSuggest == InitSuggest /\ [][NextSuggest]_vars

\* the dashboard's list over stores of up to MaxSorted activities of every
\* priority, some Closed, some NA, some with blocking points, asked with the
\* sort keys and directions and with filters
SortKinds ==
    {[status |-> "Ongoing", priority |-> p, start_date |-> 0,
      blocking_points |-> << >>] : p \in AllowedPriority}
    \cup {[status |-> "Closed", priority |-> "High", start_date |-> 0,
           blocking_points |-> << >>],
          [status |-> "NA", priority |-> "Low", start_date |-> 1,
           blocking_points |-> <<"b">>]}

SortArgs ==
    {[sort |-> k, dir |-> d] :
        k \in {"priority", "start_date", "status"}, d \in {"asc", "desc"}}
    \cup {NoArgs, [dir |-> "desc"],
          [priority |-> "Low", dir |-> "desc"], [status |-> "NA"],
          [has_blockers |-> "1"], [search |-> <<" ", "b", "c">>]}

InitSort ==
    \E n \in 0..MaxSorted : \E kinds \in [1..n -> SortKinds] :
        /\ activities =
              [i \in 1..n |->
                  [NewActivity(AddBase) EXCEPT
                      !.status = kinds[i].status,
                      !.priority = kinds[i].priority,
                      !.start_date = kinds[i].start_date,
                      !.blocking_points = kinds[i].blocking_points]]
        /\ updates = EmptyTable
        /\ goals = EmptyTable
        /\ today = 0
        /\ last = Response("none", 0, << >>, 0, "none")
        /\ sessions = [t \in Threads |-> Idle]
        /\ analytics_cache = [data |-> None, expires |-> None]
        /\ clock = 0
        /\ lockfile = None
        /\ instances = [p \in Pids |-> NotStarted]
        /\ overlapped = FALSE

NextSort == \E args \in SortArgs : Dashboard(args)

SpecSort == InitSort /\ [][NextSort]_vars

\* the weekly goals, up to ManyGoals of them, added and toggled while the
\* days of more than a week pass, with an activity in the store
ManyToggleRequests ==
    {Request(i, << >>, x) : i \in 1..(ManyGoals + 1), x \in Faults}

NextGoals ==
    \/ /\ Rows(goals) < ManyGoals
       /\ \E r \in GoalRequests : AddGoal(r.form, r.fault)
    \/ \E r \in ManyToggleRequests : ToggleGoal(r.id, r.fault)
    \/ /\ Rows(activities) < MaxActivities
       /\ \E r \in MultiAddRequests : AddActivity(r.form, r.fault)
    \/ NextDay(MaxGoalDay)

SpecGoals == Init /\ [][NextGoals]_vars

\* the pages and exports requested between writes, on a store of up to
\* ManyActivities activities, with and without blocking points, and a goal
ViewAddRequests ==
    {Request(0, [AddBase EXCEPT !.blocking_points = b, !.initial_update = n],
             "none") :
        b \in {<< >>, <<" ">>, <<"b", "c">>}, n \in {<< >>, <<"u">>}}

ViewArgs == {NoArgs, [sort |-> "start_date", dir |-> "desc"],
             [has_blockers |-> "1"]}

SearchArgs == {<<"b">>, <<" ", "b", "c", " ">>, <<"z", "z">>}

ReportForms ==
    {[start_date |-> "2024-01-01", end_date |-> "2024-01-02"],
     [start_date |-> "2024-01-02", end_date |-> "2024-01-02"],
     [start_date |-> "2024-01-01", end_date |-> "02/01/2024"],
     [start_date |-> "2024-01-01"]}

NextViews ==
    \/ /\ Rows(activities) < ManyActivities
       /\ \E r \in ViewAddRequests : AddActivity(r.form, r.fault)
    \/ \E r \in AnalyticsWrites : UpdateStatus(r.id, r.form, r.fault)
    \/ /\ Rows(goals) < MaxGoals
       /\ AddGoal([text |-> <<"g", "o", "a", "l">>], "none")
    \/ \E args \in ViewArgs : Dashboard(args)
    \/ Analytics
    \/ \E q \in SearchArgs : Search(q)
    \/ \E method \in {"GET", "POST"}, form \in ReportForms : Report(method, form)
    \/ ExportCsv
    \/ \E file_exists \in BOOLEAN : ExportAll(file_exists)

SpecViews == Init /\ [][NextViews]_vars

\* the desktop launcher's instances starting, stopping and being killed
SpecLock == Init /\ [][NextLock]_vars

SpecForce == Init /\ [][NextForce]_vars

\* ------------------------------------------------------ concurrent requests
\* waitress serves requests on worker threads, each request with a session of
\* its own on a connection of its own.  A handler first SELECTs what it loads
\* (no transaction is open, SQLite holds no lock afterwards), works on the
\* loaded objects in memory, and writes in db.session.commit(), one SQLite
\* write transaction.  Begin* is the handler up to its commit, Commit the
\* commit and the response.
InFlight == {t \in Threads : sessions[t].state = "loaded"}

RECURSIVE PendingRows(_)
PendingRows(ts) ==
    IF ts = {} THEN 0
    ELSE LET t == CHOOSE x \in ts : TRUE
         IN Len(sessions[t].pending) + PendingRows(ts \ {t})

Begin(t, op, id, r, cascade) ==
    /\ sessions[t] = Idle
    /\ id \in DOMAIN activities
    /\ r.exit = "commit"
    /\ NextId(updates) + PendingRows(InFlight) + Len(r.pending) <= MaxRowId + 1
    /\ sessions' = [sessions EXCEPT ![t] =
           [state |-> "loaded", op |-> op, id |-> id,
            loaded |-> activities[id], dirty |-> r.dirty,
            pending |-> r.pending, cascade |-> cascade]]
    /\ UNCHANGED <<activities, updates, goals, today, last, process>>

BeginEdit(t, id, form) ==
    /\ id \in DOMAIN activities
    /\ Begin(t, "edit_activity", id,
             edit_activity(activities[id], id, form, today), {})

BeginUpdate(t, id, form) ==
    /\ id \in DOMAIN activities
    /\ Begin(t, "add_update", id,
             add_update(activities[id], id, form, today), {})

BeginStatus(t, id, form) ==
    /\ id \in DOMAIN activities
    /\ Begin(t, "update_status", id,
             update_status(activities[id], id, form, today), {})

BeginDelete(t, id) ==
    /\ id \in DOMAIN activities
    /\ Begin(t, "delete_activity", id,
             [exit |-> "commit", dirty |-> activities[id], pending |-> << >>],
             CascadeOf(updates, id))

Flush(s) ==
    IF s.op = "delete_activity"
    THEN FlushDelete(activities, updates, s.id, s.cascade)
    ELSE FlushModify(activities, updates, s.id, s.loaded, s.dirty, s.pending)

\* the request as it was answered: what add_update sent and the Update row
\* its commit inserted (0: the commit failed)
Answered(s) ==
    [state |-> "answered", op |-> s.op, id |-> s.id,
     text |-> s.pending[1].text,
     row |-> IF Flush(s).ok THEN NextId(updates) ELSE 0]

CommitThen(t, after) ==
    LET s == sessions[t]
        f == Flush(s)
    IN
    /\ s.state = "loaded"
    /\ sessions' = [sessions EXCEPT ![t] = after]
    /\ UNCHANGED <<goals, today, process>>
    /\ IF f.ok
       THEN /\ activities' = f.activities
            /\ updates' = f.updates
            /\ last' = Response(s.op, s.id, << >>,
                                IF s.op = "update_status" THEN 200 ELSE 302,
                                "success")
       ELSE /\ UNCHANGED <<activities, updates>>
            /\ last' = Response(s.op, s.id, << >>,
                                IF s.op = "update_status" THEN 500 ELSE 302,
                                "error")

Commit(t) == CommitThen(t, Idle)

\* the commit of an add_update request, whose answer is kept
CommitUpdate(t) ==
    /\ sessions[t].state = "loaded"
    /\ sessions[t].op = "add_update"
    /\ CommitThen(t, Answered(sessions[t]))

ConcAddRequests ==
    {Request(0, [AddBase EXCEPT !.initial_update = <<"u">>], "none")}

ConcEditForms ==
    {[EditBase EXCEPT !.new_update = <<"u">>],
     [EditChanged EXCEPT !.new_update = <<"v">>]}

ConcUpdateForms ==
    {[update_text |-> <<"u">>],
     [update_text |-> <<"v">>, blocking_points |-> <<"b">>]}

ConcStatusForms ==
    {[status |-> "Closed", closing_note |-> <<"n">>], [status |-> "NA"]}

NextConc ==
    \/ /\ Rows(activities) < MaxActivities
       /\ NextId(updates) + PendingRows(InFlight) <= MaxRowId
       /\ \E r \in ConcAddRequests : AddActivity(r.form, r.fault)
    \/ \E t \in Threads, id \in 1..MaxActivities, form \in ConcEditForms :
           BeginEdit(t, id, form)
    \/ \E t \in Threads, id \in 1..MaxActivities, form \in ConcUpdateForms :
           BeginUpdate(t, id, form)
    \/ \E t \in Threads, id \in 1..MaxActivities, form \in ConcStatusForms :
           BeginStatus(t, id, form)
    \/ \E t \in Threads, id \in 1..MaxActivities : BeginDelete(t, id)
    \/ \E t \in Threads : Commit(t)

SpecConc == Init /\ [][NextConc]_vars

\* add_update requests on one activity, one per worker thread, running
\* concurrently
AppendForms ==
    ConcUpdateForms
    \cup {[update_text |-> <<" ", "w", " ">>, blocking_points |-> <<" ">>]}

NextAppend ==
    \/ /\ Rows(activities) < MaxActivities
       /\ \E r \in MultiAddRequests : AddActivity(r.form, r.fault)
    \/ \E t \in Threads, id \in 1..MaxActivities, form \in AppendForms :
           BeginUpdate(t, id, form)
    \/ \E t \in Threads : CommitUpdate(t)

SpecAppend == Init /\ [][NextAppend]_vars

\* ------------------------------------------------------------ properties
\* an Edit form that asks for Closed with neither a closing note nor an update
ClosesWithoutNote(form) ==
    /\ Get(form, "status", "Ongoing") = "Closed"
    /\ Strip(Get(form, "closing_note", << >>)) = << >>
    /\ Strip(Get(form, "new_update", << >>)) = << >>

\* C1: an Edit that moves a non-Closed activity to Closed with a blank closing
\* note and a blank new update is rejected, and the store after the request is
\* the store before it: none of the submitted field values is persisted.
C1_CloseWithoutNoteRejected ==
    [][last'.op = "edit_activity" /\ last'.id \in DOMAIN activities
       => \A r \in EditRequests :
            (/\ r.id = last'.id
             /\ activities[r.id].status # "Closed"
             /\ ClosesWithoutNote(r.form)
             /\ EditActivity(r.id, r.form, r.fault))
            => (/\ last'.flash # "success"
                /\ activities' = activities
                /\ updates' = updates)]_vars

C1_Witness ==
    /\ last.op = "edit_activity"
    /\ last.flash = "closing note required"
    /\ last.id \in DOMAIN activities
    /\ activities[last.id].status # "Closed"
    /\ activities[last.id].activity_desc # EditChanged.activity_desc

\* the Update rows a step inserted
NewUpdates == DOMAIN updates' \ DOMAIN updates

HasNote(form) == Strip(Get(form, "closing_note", << >>)) # << >>

\* what C2 promises of a step that closed activity id with the note of form
ClosedByNote(id, form) ==
    /\ Cardinality(NewUpdates) = 1
    /\ \A u \in NewUpdates :
          /\ updates'[u].activity_id = id
          /\ updates'[u].text = ClosedPrefix \o Strip(form.closing_note)
    /\ activities[id].end_date = None => activities'[id].end_date = Some(today)

\* C2: whenever an activity goes from a non-Closed status to Closed with a
\* non-empty closing note, through Edit or through the inline status change,
\* the request creates exactly one new Update, whose text is "[CLOSED] " + note,
\* and end_date becomes today if it was unset before.
C2_CloseWithNote ==
    [][/\ last'.op \in {"edit_activity", "update_status"}
       /\ last'.flash = "success"
       /\ last'.id \in DOMAIN activities
       /\ activities[last'.id].status # "Closed"
       /\ activities'[last'.id].status = "Closed"
       => /\ \A r \in EditRequests :
                r.id = last'.id /\ HasNote(r.form)
                    /\ EditActivity(r.id, r.form, r.fault)
                => ClosedByNote(r.id, r.form)
          /\ \A r \in StatusRequests :
                r.id = last'.id /\ HasNote(r.form)
                    /\ UpdateStatus(r.id, r.form, r.fault)
                => ClosedByNote(r.id, r.form)]_vars

\* C2 restricted to the inline status change, where the code keeps it
C2_InlineCloseWithNote ==
    [][/\ last'.op = "update_status"
       /\ last'.flash = "success"
       /\ last'.id \in DOMAIN activities
       /\ activities[last'.id].status # "Closed"
       /\ activities'[last'.id].status = "Closed"
       => \A r \in StatusRequests :
             r.id = last'.id /\ HasNote(r.form)
                 /\ UpdateStatus(r.id, r.form, r.fault)
             => ClosedByNote(r.id, r.form)]_vars

\* C3: every stored Activity has an allowed status and an allowed priority,
\* whatever requests, valid or invalid, were handled.
C3_StatusPriorityAllowed ==
    \A id \in DOMAIN activities :
        /\ activities[id].status \in {"Ongoing", "Closed", "NA"}
        /\ activities[id].priority \in {"High", "Medium", "Low"}

\* an Edit that raised (a disallowed status or priority among the causes) on a
\* stored activity
C3_Witness ==
    /\ last.op = "edit_activity"
    /\ last.flash = "error"
    /\ last.id \in DOMAIN activities
    /\ activities[last.id].status = "NA"
    /\ activities[last.id].priority = "Low"

\* a response that reports a failure
Failed(resp) ==
    \/ resp.flash \in {"error", "closing note required", "cannot be empty",
                       "description required"}
    \/ resp.code \in {400, 404, 500}

\* C4: every mutating request is all-or-nothing: a request that fails leaves
\* the store as it was, and add_activity with a note never leaves a stored
\* Activity whose observations is the note and that has no Update.
C4_AllOrNothing ==
    [][/\ last'.op # "none" /\ Failed(last')
          => activities' = activities /\ updates' = updates /\ goals' = goals
       /\ \A id \in DOMAIN activities' \ DOMAIN activities :
             activities'[id].observations # << >>
             => UpdatesOf(updates', id) # {}]_vars

\* a NULL text column read as ''
OrEmpty(x) == IF x = None THEN << >> ELSE x[1]

\* C7: every Update, whichever request created it, has bp_snapshot equal to
\* its parent's blocking_points as committed by that request (NULL counting
\* as the empty string).
C7_SnapshotIsParentBlockingPoints ==
    [][\A u \in NewUpdates :
          updates'[u].activity_id \in DOMAIN activities'
          => OrEmpty(updates'[u].bp_snapshot)
                = activities'[updates'[u].activity_id].blocking_points]_vars

\* C7 for the Updates written by add_activity and add_update, which set it
C7_SnapshotSetByCreateAndAppend ==
    [][last'.op \in {"add_activity", "add_update"}
       => \A u \in NewUpdates :
             updates'[u].bp_snapshot
                = Some(activities'[updates'[u].activity_id].blocking_points)]_vars

\* C8: once an Update exists, its text, activity_id, creation time and
\* bp_snapshot never change, also when the parent's blocking_points change,
\* and it leaves the store only through the Delete of its parent activity.
C8_UpdatesAppendOnly ==
    [][\A u \in DOMAIN updates :
          IF u \in DOMAIN updates'
          THEN updates'[u] = updates[u]
          ELSE /\ last'.op = "delete_activity"
               /\ last'.flash = "success"
               /\ last'.id = updates[u].activity_id
               /\ last'.id \notin DOMAIN activities']_vars

\* an Update whose snapshot differs from what its parent now holds
C8_Witness ==
    /\ last.op \in {"edit_activity", "add_update"}
    /\ last.flash = "success"
    /\ \E u \in DOMAIN updates :
          /\ updates[u].activity_id = last.id
          /\ updates[u].bp_snapshot = Some(<< >>)
          /\ activities[last.id].blocking_points # << >>

\* the Update of an activity that was created last
Latest(upds, id) == Max(UpdatesOf(upds, id))

\* C9: with requests handled one at a time, every activity that has an Update
\* has observations equal to the text of its most recently created Update.
C9_ObservationsIsLatestUpdate ==
    \A id \in DOMAIN activities :
        UpdatesOf(updates, id) # {}
        => activities[id].observations = updates[Latest(updates, id)].text

C9_Witness ==
    \E id \in DOMAIN activities :
        /\ Cardinality(UpdatesOf(updates, id)) = 2
        /\ \E u \in UpdatesOf(updates, id) :
              updates[u].text # activities[id].observations

\* C10: add_update with a text that is non-blank after trimming appends
\* exactly one Update to the activity, with the trimmed text and with
\* bp_snapshot equal to the blocking_points after the new value was applied
\* (the old value when none or a blank one was sent), and sets observations
\* to that text.
C10_AppendUpdate ==
    [][last'.op = "add_update" /\ last'.id \in DOMAIN activities
       => \A r \in UpdateRequests :
             (/\ r.id = last'.id
              /\ r.fault = "none"
              /\ Strip(Get(r.form, "update_text", << >>)) # << >>
              /\ AddUpdate(r.id, r.form, r.fault))
             => LET text == Strip(r.form.update_text)
                    new_bp == Strip(Get(r.form, "blocking_points", << >>))
                    bp == IF new_bp = << >>
                          THEN activities[r.id].blocking_points ELSE new_bp
                IN
                /\ last'.flash = "success"
                /\ Cardinality(NewUpdates) = 1
                /\ DOMAIN updates \subseteq DOMAIN updates'
                /\ \A u \in NewUpdates :
                      /\ updates'[u].activity_id = r.id
                      /\ updates'[u].text = text
                      /\ updates'[u].bp_snapshot = Some(bp)
                /\ activities'[r.id].blocking_points = bp
                /\ activities'[r.id].observations = text]_vars

C10_Witness ==
    /\ last.op = "add_update"
    /\ last.flash = "success"
    /\ \E u \in UpdatesOf(updates, last.id) :
          /\ updates[u].text = <<"v">>
          /\ updates[u].bp_snapshot = Some(<<"b">>)
          /\ activities[last.id].observations = <<"v">>

\* C5: after a successful Delete of activity A, A is not stored and no stored
\* Update has A's id; every other Activity, every Update of another activity
\* and every Goal is as before.
C5_DeleteCascades ==
    [][last'.op = "delete_activity" /\ last'.flash = "success"
       => LET A == last'.id IN
          /\ A \in DOMAIN activities
          /\ DOMAIN activities' = DOMAIN activities \ {A}
          /\ \A u \in DOMAIN updates' : updates'[u].activity_id # A
          /\ \A i \in DOMAIN activities' : activities'[i] = activities[i]
          /\ \A u \in DOMAIN updates :
                updates[u].activity_id # A
                => u \in DOMAIN updates' /\ updates'[u] = updates[u]
          /\ goals' = goals]_vars

\* A was deleted with its Update while another activity, that activity's
\* Update and a goal are stored
C5_Witness ==
    /\ last.op = "delete_activity"
    /\ last.flash = "success"
    /\ last.id \notin DOMAIN activities
    /\ \E i \in DOMAIN activities : UpdatesOf(updates, i) # {}
    /\ Rows(activities) = 1
    /\ Rows(updates) = 1
    /\ goals # EmptyTable

\* C6: in every reachable state, with a Delete racing the requests that loaded
\* the activity before the delete committed, every stored Update's
\* activity_id is the id of a stored Activity.
C6_NoOrphanUpdate ==
    \A u \in DOMAIN updates : updates[u].activity_id \in DOMAIN activities

\* C11: add_update whose text is blank after trimming changes nothing in the
\* store: no Update is created and the activity keeps its observations and
\* its blocking_points, also when the request carries non-blank new blocking
\* points; the response says the update cannot be empty.
C11_BlankAppendIsNoOp ==
    [][last'.op = "add_update" /\ last'.id \in DOMAIN activities
       => \A r \in UpdateRequests :
             (/\ r.id = last'.id
              /\ Strip(Get(r.form, "update_text", << >>)) = << >>
              /\ AddUpdate(r.id, r.form, r.fault))
             => (/\ last'.flash = "cannot be empty"
                 /\ updates' = updates
                 /\ activities' = activities
                 /\ goals' = goals)]_vars

\* a blank append was answered for an activity that has blocking points other
\* than the ones the blank appends carry, and an Update
C11_Witness ==
    /\ last.op = "add_update"
    /\ last.flash = "cannot be empty"
    /\ last.id \in DOMAIN activities
    /\ activities[last.id].blocking_points = << >>
    /\ activities[last.id].observations = <<"u">>
    /\ Rows(updates) = 1

\* what C12 promises of a refused inline status change
StatusRefused ==
    /\ last'.code = 400
    /\ activities' = activities
    /\ updates' = updates

\* C12 as stated: the inline status change with a submitted status outside
\* {Ongoing, Closed, NA}, or with Closed on a non-Closed activity and a blank
\* closing note, answers 400 and leaves status, end_date, observations and
\* the Updates as they were.
C12_StatusOutsideSetRefused ==
    [][last'.op = "update_status" /\ last'.id \in DOMAIN activities
       => \A r \in StatusRequests :
             (/\ r.id = last'.id
              /\ \/ Get(r.form, "status", "") \notin {"Ongoing", "Closed", "NA"}
                 \/ /\ Get(r.form, "status", "") = "Closed"
                    /\ activities[r.id].status # "Closed"
                    /\ Strip(Get(r.form, "closing_note", << >>)) = << >>
              /\ UpdateStatus(r.id, r.form, r.fault))
             => StatusRefused]_vars

\* C12 (amended): the same with the submitted status taken after trimming
\* surrounding whitespace, which is how update_status reads it.
C12_TrimmedStatusOutsideSetRefused ==
    [][last'.op = "update_status" /\ last'.id \in DOMAIN activities
       => \A r \in StatusRequests :
             (/\ r.id = last'.id
              /\ \/ strip(Get(r.form, "status", "")) \notin {"Ongoing", "Closed", "NA"}
                 \/ /\ strip(Get(r.form, "status", "")) = "Closed"
                    /\ activities[r.id].status # "Closed"
                    /\ Strip(Get(r.form, "closing_note", << >>)) = << >>
              /\ UpdateStatus(r.id, r.form, r.fault))
             => StatusRefused]_vars

\* an inline status change was refused on a stored activity that was moved
\* to NA before and has an Update
C12_Witness ==
    /\ last.op = "update_status"
    /\ last.code = 400
    /\ last.id \in DOMAIN activities
    /\ activities[last.id].status = "NA"
    /\ UpdatesOf(updates, last.id) # {}

\* C13: every request addressed to an id that is not stored (edit, delete,
\* append update or inline status change on an unknown activity id, toggle on
\* an unknown goal id) is answered 404 and leaves the store unchanged.
C13_UnknownIdIs404 ==
    [][/\ \/ /\ last'.op \in {"edit_activity", "delete_activity",
                             "add_update", "update_status"}
             /\ last'.id \notin DOMAIN activities
          \/ /\ last'.op = "toggle_goal"
             /\ last'.id \notin DOMAIN goals
       => /\ last'.code = 404
          /\ activities' = activities
          /\ updates' = updates
          /\ goals' = goals]_vars

\* C14: after any sequence of add_activity and edit_activity requests every
\* stored Activity has a non-empty description.
C14_DescriptionNonEmpty ==
    \A id \in DOMAIN activities : activities[id].activity_desc # << >>

\* the initial note of a Create form, trimmed: field observations, or field
\* initial_update when that one is blank
NoteOf(form) ==
    LET o == Strip(Get(form, "observations", << >>))
    IN IF o # << >> THEN o ELSE Strip(Get(form, "initial_update", << >>))

NewActivities == DOMAIN activities' \ DOMAIN activities

BulkSetPriority(ids, p, fault) ==
    LET target == {i \in DOMAIN activities : \E k \in DOMAIN ids : ids[k] = i}
    IN
    IF ids = << >> \/ p \notin {"High", "Medium", "Low"}
    THEN /\ last'.code = 400
         /\ activities' = activities
    ELSE fault = "none"
         => /\ last'.code = 200
            /\ last'.id = Cardinality(target)
            /\ DOMAIN activities' = DOMAIN activities
            /\ \A i \in DOMAIN activities :
                  activities'[i] = IF i \in target
                                   THEN [activities[i] EXCEPT !.priority = p]
                                   ELSE activities[i]

\* C16 as stated: with a non-empty list and a submitted priority in {High,
\* Medium, Low} the request sets that priority on exactly the stored
\* activities whose id is in the list, answers their number as updated_count
\* and changes nothing else; with an empty list or a submitted priority outside
\* the set it answers an error and changes nothing.
C16_BulkSetPriority ==
    [][last'.op = "bulk_update_priority"
       => \A r \in MultiBulkRequests :
             BulkUpdatePriority(r.form, r.fault)
             => /\ BulkSetPriority(Get(r.form, "activity_ids", << >>),
                                   Get(r.form, "priority", ""), r.fault)
                /\ updates' = updates
                /\ goals' = goals]_vars

\* C16 (amended): the same with the priority taken after trimming surrounding
\* whitespace, which is how bulk_update_priority reads it.
C16_BulkSetTrimmedPriority ==
    [][last'.op = "bulk_update_priority"
       => \A r \in MultiBulkRequests :
             BulkUpdatePriority(r.form, r.fault)
             => /\ BulkSetPriority(Get(r.form, "activity_ids", << >>),
                                   strip(Get(r.form, "priority", "")), r.fault)
                /\ updates' = updates
                /\ goals' = goals]_vars

\* one of two stored activities was given a priority by a bulk request that
\* matched one row
C16_Witness ==
    /\ last.op = "bulk_update_priority"
    /\ last.code = 200
    /\ last.id = 1
    /\ Rows(activities) = 2
    /\ \E i, j \in DOMAIN activities :
          /\ activities[i].priority = "Low"
          /\ activities[j].priority = "Medium"
    /\ Rows(updates) > 0

\* the instances that hold the lock: acquire_single_instance_lock returned a
\* file descriptor to them and they are still running
Holders == {p \in Pids : instances[p].pc = "running"}

\* C18 as stated: with force and auto_terminate off, in every interleaving of
\* instances starting, a stale lock file included, at most one instance holds
\* the lock while another that got it is still running.
C18_AtMostOneHolder == Cardinality(Holders) <= 1

\* C18 (amended): the same for the instances whose runs of
\* acquire_single_instance_lock never overlapped.
C18_AtMostOneHolderWithoutOverlap == ~overlapped => Cardinality(Holders) <= 1

\* an instance was refused while the one that holds the lock is running, with
\* no two acquisitions at once
C18_Witness ==
    /\ ~overlapped
    /\ \E p, q \in Pids :
          /\ instances[p].pc = "running"
          /\ instances[q].pc = "refused"
          /\ instances[q].existing_pid = p

\* the worker threads whose add_update request was answered
AnsweredThreads == {t \in Threads : sessions[t].state = "answered"}

\* C17: when add_update requests with non-blank texts on the same activity run
\* concurrently, each in a transaction of its own, then in every interleaving
\* the Update of each answered request is stored, in a row of its own with
\* the text that was sent, and once all the requests on an activity are
\* answered that activity's observations is the text of one of them.
C17_ConcurrentAppends ==
    /\ \A t \in AnsweredThreads :
          /\ sessions[t].row \in DOMAIN updates
          /\ updates[sessions[t].row].text = sessions[t].text
          /\ updates[sessions[t].row].activity_id = sessions[t].id
    /\ \A t1, t2 \in AnsweredThreads :
          t1 # t2 => sessions[t1].row # sessions[t2].row
    /\ \A t \in AnsweredThreads :
          (\A x \in InFlight : sessions[x].id # sessions[t].id)
          => \E t2 \in AnsweredThreads :
                /\ sessions[t2].id = sessions[t].id
                /\ activities[sessions[t].id].observations = sessions[t2].text

\* every thread's request was answered, the requests overlapped (the Update
\* stored last is not the one whose text observations holds)
C17_Witness ==
    /\ AnsweredThreads = Threads
    /\ \E t1, t2 \in Threads :
          /\ sessions[t1].text # sessions[t2].text
          /\ sessions[t1].id = sessions[t2].id
          /\ activities[sessions[t1].id].observations
                # updates[Latest(updates, sessions[t1].id)].text

\* C19: /analytics asked less than 5 minutes after the last recomputation
\* answers exactly what that recomputation produced, whatever was written
\* since, and leaves the window as it is; asked with no recomputation yet, or
\* 5 minutes or more after the last one, it recomputes from the current
\* store and starts a new window of 5 minutes.
C19_AnalyticsCache ==
    [][Analytics
       => LET fresh ==
                  /\ analytics_cache.expires # None
                  /\ clock - (analytics_cache.expires[1] - 5) < 5
          IN
          IF fresh
          THEN /\ last'.data = analytics_cache.data[1]
               /\ analytics_cache' = analytics_cache
          ELSE /\ last'.data = template_context(activities, updates, today)
               /\ analytics_cache' =
                     [data |-> Some(template_context(activities, updates, today)),
                      expires |-> Some(clock + 5)]]_vars

\* the page was answered inside a window, from the cache, and does not show
\* what the store holds now
C19_Witness ==
    /\ last.op = "analytics"
    /\ analytics_cache.expires # None
    /\ last.at > analytics_cache.expires[1] - 5
    /\ last.at < analytics_cache.expires[1]
    /\ last.at = clock
    /\ last.data = analytics_cache.data[1]
    /\ last.data.stats # stats(activities)

\* C20: the dashboard's streak is the largest k >= 0 such that each of the
\* days today, today-1, ..., today-(k-1) has an Update; it is 0 when today
\* has none, whatever earlier days hold, and the first day without an Update
\* ends the count.
C20_Streak ==
    [][Dashboard(NoArgs)
       => LET has(d) == \E u \in DOMAIN updates : updates[u].created_at = d
              K == {k \in 0..(today + 1) :
                       \A j \in 0..(k - 1) : has(today - j)}
          IN
          /\ last'.dashboard_stats.streak_days = Max(K)
          /\ ~has(today) => last'.dashboard_stats.streak_days = 0
          /\ has(today) /\ ~has(today - 1) => last'.dashboard_stats.streak_days = 1]_vars

\* a streak of 3 that stops at a day without an Update, with an Update on an
\* earlier day
C20_Witness ==
    /\ last.op = "dashboard"
    /\ last.dashboard_stats.streak_days = 3
    /\ today = 4
    /\ dates_with_updates(updates) = {0, 2, 3, 4}

\* the days C21 counts for an Ongoing activity: since its newest Update, or
\* since start_date when it has none, and since start_date
SinceUpdate(id) ==
    IF \E u \in DOMAIN updates : updates[u].activity_id = id
    THEN today - Max({updates[u].created_at :
                        u \in {v \in DOMAIN updates : updates[v].activity_id = id}})
    ELSE today - activities[id].start_date

SinceStart(id) == today - activities[id].start_date

\* list holds at most 5 of the activities in qualifying, those with the
\* largest counts, none twice, in descending order of the count it shows
TopFive(list, qualifying, count(_)) ==
    LET shown == {list[k].id : k \in DOMAIN list} IN
    /\ Len(list) <= 5
    /\ shown \subseteq qualifying
    /\ Cardinality(shown) = Len(list)
    /\ \A k \in DOMAIN list : list[k].days = count(list[k].id)
    /\ \A j, k \in DOMAIN list : j < k => list[j].days >= list[k].days
    /\ \A q \in qualifying \ shown :
          /\ Len(list) = 5
          /\ \A k \in DOMAIN list : count(q) <= list[k].days

\* C21: on the dashboard the stale list holds only Ongoing activities whose
\* days since the newest Update (since start_date without one) are at least
\* 14, the long-running list only Ongoing activities whose days since
\* start_date are at least 30; each list has at most 5 entries, the
\* qualifying activities with the largest day counts in descending order.
C21_Suggestions ==
    [][Dashboard(NoArgs)
       => LET ongoing == {i \in DOMAIN activities :
                            activities[i].status = "Ongoing"}
          IN
          /\ TopFive(last'.smart_suggestions.stale_activities,
                     {i \in ongoing : SinceUpdate(i) >= 14}, SinceUpdate)
          /\ TopFive(last'.smart_suggestions.long_running,
                     {i \in ongoing : SinceStart(i) >= 30}, SinceStart)
          /\ \A k \in DOMAIN last'.smart_suggestions.stale_activities :
                SinceUpdate(last'.smart_suggestions.stale_activities[k].id) # 13]_vars

\* six activities are stale and five are listed, the 30 days before the
\* 14 days; an Ongoing activity whose Update is 13 days old is not listed,
\* nor is a Closed one
C21_Witness ==
    /\ last.op = "dashboard"
    /\ Len(last.smart_suggestions.stale_activities) = 5
    /\ last.smart_suggestions.stale_activities[1].days = 31
    /\ last.smart_suggestions.stale_activities[5].days = 14
    /\ Len(last.smart_suggestions.long_running) = 1
    /\ Cardinality({i \in DOMAIN activities : activities[i].status = "Ongoing"
                                              /\ SinceUpdate(i) >= 14}) = 6
    /\ today = 31

\* priority p is listed before priority q when sorting by priority
Before(p, q) ==
    \/ p = "High" /\ q \in {"Medium", "Low"}
    \/ p = "Medium" /\ q = "Low"

\* C22: with sort=priority (the default) the dashboard lists every High
\* activity before every Medium one and every Medium before every Low one,
\* the reverse with dir=desc; activities of equal priority are in retrieval
\* order (by id) in both directions; without a filter the list holds every
\* activity that is not Closed, once.
C22_PrioritySort ==
    [][last'.op = "dashboard"
       => \A args \in SortArgs :
          (/\ args = last'.args
           /\ Get(args, "sort", "priority") = "priority"
           /\ Dashboard(args))
          => LET list == last'.activities
                 prio(k) == activities[list[k]].priority
             IN
             /\ \A j, k \in DOMAIN list :
                   j < k
                   => /\ IF Get(args, "dir", "asc") = "desc"
                         THEN ~Before(prio(j), prio(k))
                         ELSE ~Before(prio(k), prio(j))
                      /\ prio(j) = prio(k) => list[j] < list[k]
             /\ DOMAIN args \subseteq {"sort", "dir"}
                => /\ {list[k] : k \in DOMAIN list}
                         = {i \in DOMAIN activities :
                               activities[i].status # "Closed"}
                   /\ Len(list) = Cardinality({list[k] : k \in DOMAIN list})]_vars

\* a descending list: a Low activity, then two Medium ones in retrieval
\* order, then a High one that was retrieved first
C22_Witness ==
    /\ last.op = "dashboard"
    /\ Get(last.args, "sort", "priority") = "priority"
    /\ Get(last.args, "dir", "asc") = "desc"
    /\ last.activities = <<4, 2, 3, 1>>
    /\ activities[1].priority = "High"
    /\ activities[2].priority = "Medium"
    /\ activities[3].priority = "Medium"
    /\ activities[4].priority = "Low"

\* C23: for the same store and date, the long-running and stale lists that
\* /analytics computes are the lists of the dashboard's smart suggestions:
\* long-running holds only Ongoing activities with at least 30 days since
\* start_date, stale only Ongoing activities with at least 14 days since the
\* last update, and each list has at most 5 entries.
C23_SameListsAsDashboard ==
    [][Analytics /\ analytics_cache' # analytics_cache
       => LET dash == smart_suggestions(activities, updates, today)
              long == last'.data.long_running_activities
              stale == last'.data.stale_activities_list
          IN
          /\ long = dash.long_running
          /\ stale = dash.stale_activities
          /\ \A k \in DOMAIN long :
                /\ activities[long[k].id].status = "Ongoing"
                /\ SinceStart(long[k].id) >= 30
          /\ \A k \in DOMAIN stale :
                /\ activities[stale[k].id].status = "Ongoing"
                /\ SinceUpdate(stale[k].id) >= 14
          /\ Len(long) <= 5
          /\ Len(stale) <= 5]_vars

\* C24: add_goal stores a goal only if the trimmed text has at least 3
\* characters; every goal it stores is not complete and has week_of equal to
\* the Monday of the week that contains today; a rejected request stores no
\* goal; no request changes a goal that was stored before, or an activity.
C24_GoalAdd ==
    [][last'.op = "add_goal"
       => \A r \in GoalRequests :
             AddGoal(r.form, r.fault)
             => LET text == IF Get(r.form, "text", << >>) # << >>
                            THEN r.form.text
                            ELSE Get(r.form, "goal_text", << >>)
                    added == DOMAIN goals' \ DOMAIN goals
                IN
                /\ added # {} => Len(Strip(text)) >= 3
                /\ Len(Strip(text)) < 3 => goals' = goals
                /\ \A g \in added :
                      /\ goals'[g].is_complete = FALSE
                      /\ goals'[g].week_of % 7 = 0
                      /\ goals'[g].week_of <= today
                      /\ today < goals'[g].week_of + 7
                /\ Cardinality(added) <= 1
                /\ \A g \in DOMAIN goals :
                      g \in DOMAIN goals' /\ goals'[g] = goals[g]
                /\ activities' = activities
                /\ updates' = updates]_vars

\* a goal of the second week was added on its Tuesday, next to a goal of
\* the first week that is complete
C24_Witness ==
    /\ last.op = "add_goal"
    /\ last.flash = "success"
    /\ today = 8
    /\ last.id \in DOMAIN goals
    /\ goals[last.id].week_of = 7
    /\ \E g \in DOMAIN goals : goals[g].week_of = 0 /\ goals[g].is_complete

\* C25: toggle_goal on a stored goal, when its commit goes through, flips
\* is_complete of that goal and leaves its text, its week_of, every other
\* goal and every activity and Update as they were; a second toggle of the
\* goal therefore gives back the original is_complete.
C25_Toggle ==
    [][last'.op = "toggle_goal"
       => \A r \in ManyToggleRequests :
             (/\ r.id \in DOMAIN goals
              /\ r.fault = "none"
              /\ ToggleGoal(r.id, r.fault))
             => /\ DOMAIN goals' = DOMAIN goals
                /\ goals'[r.id].is_complete = ~goals[r.id].is_complete
                /\ ~goals'[r.id].is_complete = goals[r.id].is_complete
                /\ goals'[r.id].text = goals[r.id].text
                /\ goals'[r.id].week_of = goals[r.id].week_of
                /\ \A g \in DOMAIN goals \ {r.id} : goals'[g] = goals[g]
                /\ activities' = activities
                /\ updates' = updates]_vars

\* the first of two goals was toggled twice and is as it was added, the
\* second was toggled once; an activity is stored
C25_Witness ==
    /\ last.op = "toggle_goal"
    /\ last.flash = "none"
    /\ last.code = 302
    /\ last.id = 1
    /\ Rows(goals) = 2
    /\ ~goals[1].is_complete
    /\ goals[2].is_complete
    /\ Rows(activities) = 1

\* a request for one of the pages and downloads that only show the store
Rendering ==
    \/ \E args \in ViewArgs : Dashboard(args)
    \/ Analytics
    \/ \E q \in SearchArgs : Search(q)
    \/ \E method \in {"GET", "POST"}, form \in ReportForms : Report(method, form)
    \/ ExportCsv
    \/ \E file_exists \in BOOLEAN : ExportAll(file_exists)

\* C26: a request for the dashboard, the analytics view, the search endpoint,
\* a report, the CSV export or the ZIP export changes no Activity, Update or
\* Goal row: the store after the request is the store before it.
C26_ViewsReadOnly ==
    [][Rendering
       => /\ activities' = activities
          /\ updates' = updates
          /\ goals' = goals]_vars

\* the ZIP export was answered without a database file at its path while
\* two activities, an Update and a goal are stored
C26_Witness ==
    /\ last.op = "export_all"
    /\ last.code = 404
    /\ Rows(activities) = 2
    /\ Rows(updates) > 0
    /\ Rows(goals) = 1

\* C29: for every store, the dashboard's blocker_count is the blocker_count
\* that /analytics computes: both are the number of Ongoing activities whose
\* blocking_points is non-blank, also when some blocking_points consists of
\* whitespace only.
C29_SameBlockerCount ==
    [][\A args \in ViewArgs :
          Dashboard(args)
          => LET blocked == {i \in DOMAIN activities :
                               /\ activities[i].status = "Ongoing"
                               /\ Strip(activities[i].blocking_points) # << >>}
             IN
             /\ last'.dashboard_stats.blocker_count = Cardinality(blocked)
             /\ template_context(activities, updates, today).stats.blocker_count
                   = Cardinality(blocked)]_vars

\* C27: a "[CLOSED] " Update is appended, and end_date filled in, only by a
\* request that moves the activity from a non-Closed status to Closed: the
\* inline status change to Closed on an activity that is Closed already,
\* with or without a closing note, adds no Update and leaves end_date and
\* observations as they were.
C27_ClosedAgainChangesNothing ==
    [][last'.op = "update_status" /\ last'.id \in DOMAIN activities
       => \A r \in StatusRequests :
             (/\ r.id = last'.id
              /\ strip(Get(r.form, "status", "")) = "Closed"
              /\ activities[r.id].status = "Closed"
              /\ UpdateStatus(r.id, r.form, r.fault))
             => /\ updates' = updates
                /\ activities'[r.id].end_date = activities[r.id].end_date
                /\ activities'[r.id].observations
                      = activities[r.id].observations]_vars

\* C28: in every state reached through add_activity, edit_activity,
\* update_status and add_update every stored activity whose status is Closed
\* has at least one Update.
C28_ClosedHasUpdate ==
    \A id \in DOMAIN activities :
        activities[id].status = "Closed" => UpdatesOf(updates, id) # {}

\* C30: while an instance that acquired the lock is serving, the lock file
\* exists, and the exit of an instance does not remove a lock file that holds
\* the pid of another instance that is serving (B, which took the lock with
\* force while the exiting A was running).  Stated for instances whose runs
\* of acquire_single_instance_lock never overlapped, at the moments when no
\* instance is inside acquire_single_instance_lock.
C30_LockFileOutlivesOtherExit ==
    [][(~overlapped' /\ \A q \in Pids : instances'[q].pc \notin Acquiring)
       => /\ \A p \in Pids : instances'[p].pc = "running" => lockfile' # None
          /\ \A p \in Pids :
                (/\ Exit(p)
                 /\ lockfile # None
                 /\ lockfile[1].content \in Pids \ {p}
                 /\ instances[lockfile[1].content].pc = "running")
                => lockfile' = lockfile]_vars

====
